---- MODULE Spec2Model ----
(***************************************************************************)
(* ReliefRoute decision pipeline: A* route planner, inventory gap          *)
(* analyser, risk classifier and similarity matcher of backend/app.        *)
(*                                                                         *)
(* Units.  Python floats are modelled as scaled integers:                  *)
(*   edge distance and time, route totals : 1/1000 km, 1/1000 min          *)
(*   A* costs, heuristic and f-scores      : 1/1000000 km or min           *)
(*   hospital load                         : 1/100 of the python value     *)
(***************************************************************************)
EXTENDS Integers, Sequences, FiniteSets, TLC

(***************************************************************************)
(* Bounds of the explored inputs.                                          *)
(***************************************************************************)
\* largest number of arbitrary road names in a blocked_roads argument
MaxBlocked == 1
\* longest zone list handed to find_routes_to_zones
MaxZones == 2
\* largest number of estimate fields that differ from 0
MaxVaried == 1

MaxCorpus == 3

MaxTopK == 3

None == [kind |-> "None"]

(***************************************************************************)
(* scenarios.py: ROAD_NETWORK                                              *)
(***************************************************************************)
NodeIds ==
  <<"Central_Depot", "Anna_Salai_Node", "OMR_Node", "ECR_Node",
    "Mount_Road_Node", "Marina_Node", "Velachery_Node", "Ambattur_Node",
    "Tambaram_Node", "Zone_North", "Zone_South", "Zone_East",
    "Zone_West", "Zone_Central", "Link_Road_East", "Link_Road_West",
    "Link_Road_North", "Link_Road_South">>

Edges ==
  <<
    [from |-> "Central_Depot", to |-> "Anna_Salai_Node", road |-> "Anna_Salai", distance |-> 3500, time_min |-> 10000],
    [from |-> "Central_Depot", to |-> "Zone_Central", road |-> "Central_Link", distance |-> 1000, time_min |-> 5000],
    [from |-> "Anna_Salai_Node", to |-> "Mount_Road_Node", road |-> "Anna_Salai", distance |-> 2500, time_min |-> 8000],
    [from |-> "Anna_Salai_Node", to |-> "Zone_Central", road |-> "Link_1", distance |-> 2000, time_min |-> 6000],
    [from |-> "Mount_Road_Node", to |-> "OMR_Node", road |-> "Mount_Road", distance |-> 4000, time_min |-> 12000],
    [from |-> "Mount_Road_Node", to |-> "Velachery_Node", road |-> "Mount_Road", distance |-> 3000, time_min |-> 9000],
    [from |-> "OMR_Node", to |-> "Zone_South", road |-> "OMR", distance |-> 5000, time_min |-> 15000],
    [from |-> "OMR_Node", to |-> "Velachery_Node", road |-> "OMR", distance |-> 3500, time_min |-> 10000],
    [from |-> "OMR_Node", to |-> "ECR_Node", road |-> "Link_2", distance |-> 2000, time_min |-> 6000],
    [from |-> "ECR_Node", to |-> "Zone_East", road |-> "ECR", distance |-> 4000, time_min |-> 12000],
    [from |-> "ECR_Node", to |-> "Marina_Node", road |-> "ECR", distance |-> 3000, time_min |-> 9000],
    [from |-> "Marina_Node", to |-> "Zone_East", road |-> "Marina", distance |-> 2500, time_min |-> 8000],
    [from |-> "Marina_Node", to |-> "Zone_Central", road |-> "Link_3", distance |-> 2000, time_min |-> 6000],
    [from |-> "Central_Depot", to |-> "Link_Road_East", road |-> "Inner_Ring", distance |-> 1500, time_min |-> 5000],
    [from |-> "Link_Road_East", to |-> "Zone_East", road |-> "Inner_Ring", distance |-> 2000, time_min |-> 7000],
    [from |-> "Central_Depot", to |-> "Link_Road_West", road |-> "Inner_Ring", distance |-> 2000, time_min |-> 6000],
    [from |-> "Link_Road_West", to |-> "Zone_West", road |-> "Inner_Ring", distance |-> 2500, time_min |-> 8000],
    [from |-> "Central_Depot", to |-> "Link_Road_North", road |-> "NH_48", distance |-> 4000, time_min |-> 12000],
    [from |-> "Link_Road_North", to |-> "Zone_North", road |-> "NH_48", distance |-> 3000, time_min |-> 9000],
    [from |-> "Link_Road_North", to |-> "Ambattur_Node", road |-> "NH_48", distance |-> 2000, time_min |-> 6000],
    [from |-> "Ambattur_Node", to |-> "Zone_North", road |-> "Local_1", distance |-> 4000, time_min |-> 12000],
    [from |-> "Velachery_Node", to |-> "Link_Road_South", road |-> "Velachery_Main", distance |-> 3000, time_min |-> 9000],
    [from |-> "Link_Road_South", to |-> "Zone_South", road |-> "Local_2", distance |-> 3500, time_min |-> 10000],
    [from |-> "Link_Road_South", to |-> "Tambaram_Node", road |-> "GST_Road", distance |-> 4000, time_min |-> 12000],
    [from |-> "Tambaram_Node", to |-> "Zone_South", road |-> "Local_3", distance |-> 3000, time_min |-> 9000],
    [from |-> "Zone_Central", to |-> "Link_Road_East", road |-> "Link_4", distance |-> 1500, time_min |-> 5000],
    [from |-> "Zone_Central", to |-> "Link_Road_West", road |-> "Link_5", distance |-> 2000, time_min |-> 6000]
  >>

\* nodes[n]["coordinates"] in 1/10000 degree, in NodeIds order
Coordinates ==
  <<<<130827, 802707>>, <<130600, 802500>>, <<129500, 802400>>, <<129800, 802800>>,
    <<130400, 802600>>, <<130500, 802900>>, <<129800, 802200>>, <<131143, 801548>>,
    <<129249, 801000>>, <<131500, 802000>>, <<129000, 801500>>, <<130500, 803000>>,
    <<130500, 801000>>, <<130800, 802700>>, <<130600, 802800>>, <<130600, 801500>>,
    <<131200, 802200>>, <<129500, 801800>>>>

ROAD_NETWORK == [nodes |-> {NodeIds[i] : i \in 1..Len(NodeIds)}, edges |-> Edges]

NodeIndex(n) == CHOOSE i \in 1..Len(NodeIds) : NodeIds[i] = n

RoadNames == {Edges[i].road : i \in 1..Len(Edges)}

\* str < str on node ids: position of each node id (in NodeIds order) when the
\* ids are sorted as python compares strings
NodeRank == <<3, 2, 11, 4, 10, 9, 13, 1, 12, 16, 17, 15, 18, 14, 5, 8, 6, 7>>

StrLess(a, b) == NodeRank[NodeIndex(a)] < NodeRank[NodeIndex(b)]

(***************************************************************************)
(* routing.py: haversine_distance over the node coordinates, in 1/1000000  *)
(* km (rounded down); row and column in NodeIds order.                     *)
(***************************************************************************)
HaversineMicro ==
  <<<<0, 3376121, 15125767, 11464074, 4887434, 4194188, 12671874, 13034716, 25493475, 10706156, 24160669, 4826296, 18843671, 309651, 2717700, 13314912, 6881254, 17727994>>,
    <<3376121, 0, 12279331, 9470726, 2473684, 4473244, 9470726, 11948592, 22131626, 11378602, 20831025, 5529014, 16286145, 3104597, 3249562, 10831875, 7420822, 14391843>>,
    <<15125767, 12279331, 0, 5469460, 10239461, 12368900, 3978022, 20468448, 15426688, 22657155, 11227247, 12880303, 18807456, 14816219, 12976487, 15642483, 19026895, 6502007>>,
    <<11464074, 9470726, 5469460, 0, 7014741, 7858679, 6501223, 20172811, 20445429, 20794624, 16661641, 8079604, 20996928, 11172139, 8895594, 16657808, 16869574, 11337872>>,
    <<4887434, 2473684, 10239461, 7014741, 0, 3434730, 7955616, 14074375, 21548876, 13850444, 19606434, 4473414, 17367684, 4577793, 3104719, 12121301, 9894507, 13239381>>,
    <<4194188, 4473244, 12368900, 7858679, 3434730, 0, 10867267, 16295665, 24845707, 14786790, 22545964, 1083231, 20581395, 3977545, 1552344, 15205643, 10865769, 16299712>>,
    <<12671874, 9470726, 3978022, 6501223, 7955616, 10867267, 0, 16519418, 14374952, 19026865, 11690965, 11649177, 15152593, 12368613, 11017435, 11689381, 15567289, 5469460>>,
    <<13034716, 11948592, 20468448, 20172811, 14074375, 16295665, 16519418, 0, 21881111, 6301987, 23834746, 17275473, 9292379, 13046381, 14843519, 6060224, 7089135, 18472164>>,
    <<25493475, 22131626, 15426688, 20445429, 21548876, 24845707, 14374952, 21881111, 0, 27273623, 6085494, 25750620, 13910485, 25232434, 24617644, 15969405, 25291123, 9107948>>,
    <<10706156, 11378602, 22657155, 20794624, 13850444, 14786790, 19026865, 6301987, 27273623, 0, 28321548, 15522066, 15522066, 10865124, 13236857, 11378602, 3977210, 22344261>>,
    <<24160669, 20831025, 11227247, 16661641, 19606434, 22545964, 11690965, 23834746, 6085494, 28321548, 0, 23288825, 17537089, 23867416, 22692316, 17791188, 25611468, 6440646>>,
    <<4826296, 5529014, 12880303, 8079604, 4473414, 1083231, 11649177, 17275473, 25750620, 15522066, 23288825, 0, 21664627, 4656942, 2435118, 16286145, 11647351, 17107878>>,
    <<18843671, 16286145, 18807456, 20996928, 17367684, 20581395, 15152593, 9292379, 13910485, 15522066, 17537089, 21664627, 0, 18713536, 19529451, 5529014, 15149435, 14098595>>,
    <<309651, 3104597, 14816219, 11172139, 4577793, 3977545, 12368613, 13046381, 25232434, 10865124, 23867416, 4656942, 18713536, 0, 2473646, 13186604, 7007550, 17436407>>,
    <<2717700, 3249562, 12976487, 8895594, 3104719, 1552344, 11017435, 14843519, 24617644, 13236857, 22692316, 2435118, 19529451, 2473646, 0, 14081437, 9313424, 16339822>>,
    <<13314912, 10831875, 15642483, 16657808, 12121301, 15205643, 11689381, 6060224, 15969405, 11378602, 17791188, 16286145, 5529014, 13186604, 14081437, 0, 10098960, 12655928>>,
    <<6881254, 7420822, 19026895, 16869574, 9894507, 10865769, 15567289, 7089135, 25291123, 3977210, 25611468, 11647351, 15149435, 7007550, 9313424, 10098960, 0, 19393429>>,
    <<17727994, 14391843, 6502007, 11337872, 13239381, 16299712, 5469460, 18472164, 9107948, 22344261, 6440646, 17107878, 14098595, 17436407, 16339822, 12655928, 19393429, 0>>>>

haversine_distance(n1, n2) == HaversineMicro[NodeIndex(n1)][NodeIndex(n2)]

(***************************************************************************)
(* State                                                                   *)
(***************************************************************************)
VARIABLES
  pc,             \* position of the running call
  caller,         \* "a_star_route" (direct call) or "find_routes_to_zones"
  start,          \* a_star_route arguments
  goal,
  blocked_roads,
  optimize_for,
  open_set,       \* a_star_route locals

  closed_set,
  g_scores,
  route,          \* value returned by the last a_star_route call
  zones,          \* find_routes_to_zones: argument, loop position, result
  zone_pos,
  routes

VARIABLES
  apc,                  \* position of the inventory / risk steps
  depot_inventory,      \* scenarios.DEPOT_INVENTORY
  required,             \* check_inventory arguments
  available_resources,
  inventory_status,     \* value returned by check_inventory
  scenario,             \* determine_risk_level argument
  risk_classifier,      \* what self.risk_classifier does in the call
  risk_level            \* value returned by determine_risk_level

routing_vars ==
  <<pc, caller, start, goal, blocked_roads, optimize_for, open_set,
    closed_set, g_scores, route, zones, zone_pos, routes>>

assess_vars ==
  <<apc, depot_inventory, required, available_resources, inventory_status,
    scenario, risk_classifier, risk_level>>

VARIABLES spc, historical_scenarios, query, top_k, similar

similar_vars == <<spc, historical_scenarios, query, top_k, similar>>

VARIABLES
  epc,                  \* position of the estimate / advice steps
  est_scenario,         \* estimate_resources arguments
  est_similar,
  demand_model,         \* what self.demand_model does in the call
  resource_estimates,   \* value returned by estimate_resources
  actions_inventory,    \* generate_recommended_actions: inventory_status
  recommended_actions   \* value returned by generate_recommended_actions

VARIABLES
  decisions,            \* the DecisionResponse objects, by id
  decisions_history,    \* agent.decisions_history: the ids, oldest first
  active_decisions,     \* main.active_decisions: the ids, newest first
  learning_weights,     \* agent.learning_weights, in 1/10000
  feedback_log,         \* the update_learning_weights calls made so far
  activity_logs,        \* main.activity_logs, newest first
  runs_completed,       \* run_agent calls that returned a decision
  last_call             \* the last request handled and how it ended

decision_vars ==
  <<decisions, decisions_history, active_decisions, learning_weights,
    feedback_log, activity_logs, runs_completed, last_call>>

estimate_vars ==
  <<epc, est_scenario, est_similar, demand_model, resource_estimates,
    actions_inventory, recommended_actions>>

(***************************************************************************)
(* Input domains                                                           *)
(***************************************************************************)
RECURSIVE SubsetsUpTo(_, _)
SubsetsUpTo(S, k) ==
  IF k = 0 \/ S = {} THEN {{}}
  ELSE LET x == CHOOSE y \in S : TRUE
           rest == S \ {x}
       IN SubsetsUpTo(rest, k) \cup {s \cup {x} : s \in SubsetsUpTo(rest, k - 1)}

RECURSIVE SeqsUpTo(_, _)
SeqsUpTo(S, k) ==
  IF k = 0 THEN {<<>>}
  ELSE LET shorter == SeqsUpTo(S, k - 1)
       IN shorter \cup {Append(s, x) : s \in shorter, x \in S}

ZoneNodeIds == {"Zone_North", "Zone_South", "Zone_East", "Zone_West", "Zone_Central"}

\* road names of the edges that touch node n
IncidentRoads(n) ==
  {Edges[i].road : i \in {j \in 1..Len(Edges) : Edges[j].from = n \/ Edges[j].to = n}}

\* names a caller may block: every road of the network and one unknown name
BlockableNames == RoadNames \cup {"Unknown_Road"}

\* blocked_roads that cut one or two zones off: every road of those zones
ZoneCuts == {IncidentRoads(z1) \cup IncidentRoads(z2) : z1, z2 \in ZoneNodeIds}

\* blocked_roads of a direct a_star_route call
BlockedChoices == SubsetsUpTo(BlockableNames, MaxBlocked) \cup ZoneCuts

\* blocked_roads of a find_routes_to_zones call
ZoneBlockedChoices == {{}} \cup ZoneCuts

\* node arguments: every node of the network and one id that is not a node
NodeChoices == ROAD_NETWORK.nodes \cup {"Not_A_Node"}

ZoneNames == {"North", "South", "East", "West", "Central", "Harbour"}

\* f"Zone_{zone}"
ZoneNode(zone) ==
  CASE zone = "North"   -> "Zone_North"
    [] zone = "South"   -> "Zone_South"
    [] zone = "East"    -> "Zone_East"
    [] zone = "West"    -> "Zone_West"
    [] zone = "Central" -> "Zone_Central"
    [] OTHER            -> "Zone_Harbour"

(***************************************************************************)
(* routing.py: build_graph                                                 *)
(***************************************************************************)
Neighbor(to, e) == [to |-> to, road |-> e.road, distance |-> e.distance, time |-> e.time_min]

\* mutant: the backward edge is never added
RECURSIVE Adjacency_ForwardOnly(_, _, _)
Adjacency_ForwardOnly(n, blocked_set, i) ==
  IF i = 0 THEN <<>>
  ELSE LET e    == Edges[i]
           prev == Adjacency_ForwardOnly(n, blocked_set, i - 1)
       IN IF e.road \in blocked_set THEN prev
          ELSE IF e.from = n THEN Append(prev, Neighbor(e.to, e)) ELSE prev

\* mutant: only the forward edge of a blocked road is left out
RECURSIVE Adjacency_BackwardKept(_, _, _)
Adjacency_BackwardKept(n, blocked_set, i) ==
  IF i = 0 THEN <<>>
  ELSE LET e    == Edges[i]
           prev == Adjacency_BackwardKept(n, blocked_set, i - 1)
           fwd  == IF e.from = n /\ e.road \notin blocked_set
                     THEN Append(prev, Neighbor(e.to, e)) ELSE prev
       IN IF e.to = n THEN Append(fwd, Neighbor(e.from, e)) ELSE fwd

\* graph[n] after the first i edges have been visited
RECURSIVE Adjacency(_, _, _)
Adjacency(n, blocked_set, i) ==
  IF i = 0 THEN <<>>
  ELSE LET e    == Edges[i]
           prev == Adjacency(n, blocked_set, i - 1)
           fwd  == IF e.from = n THEN Append(prev, Neighbor(e.to, e)) ELSE prev
       IN IF e.road \in blocked_set THEN prev
          ELSE IF e.to = n THEN Append(fwd, Neighbor(e.from, e)) ELSE fwd

\* mutant: the blocked set is ignored
build_graph_Unfiltered(blocked) ==
  [n \in ROAD_NETWORK.nodes |-> Adjacency(n, {}, Len(Edges))]

build_graph(blocked) ==
  [n \in ROAD_NETWORK.nodes |-> Adjacency(n, blocked, Len(Edges))]

(***************************************************************************)
(* routing.py: a_star_route                                                *)
(***************************************************************************)
heuristic(node_id, goal_id, mode) ==
  LET dist == haversine_distance(node_id, goal_id)
  IN IF mode = "time" THEN (dist * 60) \div 30 ELSE dist

\* list < list on paths (lists of node ids)
RECURSIVE PathLess(_, _)
PathLess(p, q) ==
  IF p = <<>> THEN q # <<>>
  ELSE IF q = <<>> THEN FALSE
  ELSE IF Head(p) = Head(q) THEN PathLess(Tail(p), Tail(q))
  ELSE StrLess(Head(p), Head(q))

\* tuple < tuple on heap entries (f_score, node_id, path, total_cost, roads)
EntryLess(a, b) ==
  IF a.f # b.f THEN a.f < b.f
  ELSE IF a.node # b.node THEN StrLess(a.node, b.node)
  ELSE IF a.path # b.path THEN PathLess(a.path, b.path)
  ELSE a.cost < b.cost

\* the entry heapq.heappop removes: the least entry of the heap
HeapMin(heap) == CHOOSE e \in heap : \A o \in heap \ {e} : EntryLess(e, o)

RECURSIVE SumDistance(_)
SumDistance(roads) ==
  IF roads = <<>> THEN 0 ELSE Head(roads).distance + SumDistance(Tail(roads))

RECURSIVE SumTime(_)
SumTime(roads) ==
  IF roads = <<>> THEN 0 ELSE Head(roads).time + SumTime(Tail(roads))

\* round(x, 2) and round(x, 1) on values held in 1/1000 (ties to even)
RoundTo(x, unit) ==
  LET r == x % unit
      lo == x - r
  IN IF 2 * r < unit THEN lo
     ELSE IF 2 * r > unit THEN lo + unit
     ELSE IF (lo \div unit) % 2 = 0 THEN lo ELSE lo + unit

Round2(x) == RoundTo(x, 10)

Round1(x) == RoundTo(x, 100)

\* mutant: the search cost is reported as the total time
RouteOf_CostAsTime(entry) ==
  [kind              |-> "route",
   path              |-> entry.path,
   roads_used        |-> [i \in 1..Len(entry.roads) |-> entry.roads[i].road],
   total_distance_km |-> Round2(SumDistance(entry.roads)),
   total_time_min    |-> Round1(entry.cost \div 1000),
   path_coordinates  |-> [i \in 1..Len(entry.path) |-> Coordinates[NodeIndex(entry.path[i])]]]

\* mutant: the coordinates are listed from the goal back to the start
RouteOf_CoordinatesReversed(entry) ==
  [kind              |-> "route",
   path              |-> entry.path,
   roads_used        |-> [i \in 1..Len(entry.roads) |-> entry.roads[i].road],
   total_distance_km |-> Round2(SumDistance(entry.roads)),
   total_time_min    |-> Round1(SumTime(entry.roads)),
   path_coordinates  |-> [i \in 1..Len(entry.path) |->
                            Coordinates[NodeIndex(entry.path[Len(entry.path) + 1 - i])]]]

\* the dict returned when the goal is popped
RouteOf(entry) ==
  [kind              |-> "route",
   path              |-> entry.path,
   roads_used        |-> [i \in 1..Len(entry.roads) |-> entry.roads[i].road],
   total_distance_km |-> Round2(SumDistance(entry.roads)),
   total_time_min    |-> Round1(SumTime(entry.roads)),
   path_coordinates  |-> [i \in 1..Len(entry.path) |-> Coordinates[NodeIndex(entry.path[i])]]]

StepCost(cost, neighbor, mode) ==
  IF mode = "time" THEN cost + neighbor.time * 1000
  ELSE cost + neighbor.distance * 1000

\* the for loop over graph[current]: g_scores and the heap after the
\* neighbours i..Len(nbrs) have been handled.  The dict and the heap after a
\* push are bound once (scored, pushed) and handed to the next pass
RECURSIVE Relax(_, _, _, _, _, _, _, _)
Relax(nbrs, i, entry, closed, gs, heap, goal_id, mode) ==
  IF i > Len(nbrs) THEN [g_scores |-> gs, open_set |-> heap]
  ELSE
    LET neighbor == nbrs[i]
        new_cost == StepCost(entry.cost, neighbor, mode)
    IN IF neighbor.to \in closed
         THEN Relax(nbrs, i + 1, entry, closed, gs, heap, goal_id, mode)
       ELSE IF neighbor.to \notin DOMAIN gs \/ new_cost < gs[neighbor.to]
         THEN CHOOSE result \in
                {Relax(nbrs, i + 1, entry, closed, scored, pushed, goal_id, mode) :
                   scored \in {[n \in DOMAIN gs \cup {neighbor.to} |->
                                 IF n = neighbor.to THEN new_cost ELSE gs[n]]},
                   pushed \in {heap \cup {[f     |-> new_cost + heuristic(neighbor.to, goal_id, mode),
                                node  |-> neighbor.to,
                                path  |-> Append(entry.path, neighbor.to),
                                cost  |-> new_cost,
                                roads |-> Append(entry.roads, neighbor)]}}} : TRUE
       ELSE Relax(nbrs, i + 1, entry, closed, gs, heap, goal_id, mode)

\* lines 65-88: the state a call of a_star_route(s, g, blocked, mode) is in
\* when it reaches the while loop, or has returned None from line 72
Enter(s, g, blocked, mode) ==
  /\ start' = s
  /\ goal' = g
  /\ blocked_roads' = blocked
  /\ optimize_for' = mode
  /\ closed_set' = {}
  /\ IF s \notin ROAD_NETWORK.nodes \/ g \notin ROAD_NETWORK.nodes
       THEN /\ pc' = "returned"
            /\ route' = None
            /\ open_set' = {}
            /\ g_scores' = << >>
       ELSE /\ pc' = "search"
            /\ route' = None
            /\ open_set' = {[f |-> heuristic(s, g, mode), node |-> s,
                            path |-> <<s>>, cost |-> 0, roads |-> <<>>]}
            /\ g_scores' = [n \in {s} |-> 0]

\* a direct call of a_star_route
a_star_route ==
  /\ pc = "idle"
  /\ \E s \in NodeChoices, g \in NodeChoices, b \in BlockedChoices,
        mode \in {"time", "distance"} :
       Enter(s, g, b, mode)
  /\ caller' = "a_star_route"
  /\ UNCHANGED <<zones, zone_pos, routes>>
  /\ UNCHANGED <<assess_vars, similar_vars, estimate_vars, decision_vars>>

\* mutant: the least entry is read and left in the heap
Popped_Peek(heap, entry) == heap

\* line 91: the heap after heapq.heappop has taken the entry out
Popped(heap, entry) == heap \ {entry}

\* one iteration of the while loop (lines 90-129): entry is the tuple popped,
\* rest the heap it leaves, nbrs the list graph.get(current, [])
a_star_iterate ==
  /\ pc = "search"
  /\ open_set # {}
  /\ \E entry \in {HeapMin(open_set)} :
     \E rest \in {Popped(open_set, entry)} :
        IF entry.node = goal
          THEN /\ route' = RouteOf(entry)
               /\ pc' = "returned"
               /\ open_set' = rest
               /\ UNCHANGED <<closed_set, g_scores>>
        ELSE IF entry.node \in closed_set
          THEN /\ open_set' = rest
               /\ UNCHANGED <<pc, route, closed_set, g_scores>>
        ELSE \E closed \in {closed_set \cup {entry.node}} :
             \E nbrs \in {build_graph(blocked_roads)[entry.node]} :
             \E after \in {Relax(nbrs, 1, entry, closed, g_scores, rest, goal, optimize_for)} :
                /\ closed_set' = closed
                /\ g_scores' = after.g_scores
                /\ open_set' = after.open_set
                /\ UNCHANGED <<pc, route>>
  /\ UNCHANGED <<caller, start, goal, blocked_roads, optimize_for,
                 zones, zone_pos, routes>>
  /\ UNCHANGED <<assess_vars, similar_vars, estimate_vars, decision_vars>>

\* line 131: the heap is empty, no path found
a_star_exhausted ==
  /\ pc = "search"
  /\ open_set = {}
  /\ route' = None
  /\ pc' = "returned"
  /\ UNCHANGED <<caller, start, goal, blocked_roads, optimize_for,
                 open_set, closed_set, g_scores, zones, zone_pos, routes>>
  /\ UNCHANGED <<assess_vars, similar_vars, estimate_vars, decision_vars>>

(***************************************************************************)
(* routing.py: find_routes_to_zones                                        *)
(***************************************************************************)
\* the start node of the only call site (agent.py, _process_scenario)
Depot == "Central_Depot"

\* the call: routes = {} and the first pass of the for loop, up to the
\* a_star_route call of the first zone
find_routes_to_zones ==
  /\ pc = "idle"
  /\ \E zs \in SeqsUpTo(ZoneNames, MaxZones), b \in ZoneBlockedChoices :
       /\ zones' = zs
       /\ routes' = << >>
       /\ caller' = "find_routes_to_zones"
       /\ IF zs = <<>>
            THEN /\ pc' = "done"
                 /\ zone_pos' = 0
                 /\ start' = Depot
                 /\ blocked_roads' = b
                 /\ UNCHANGED <<goal, optimize_for, open_set,
                                closed_set, g_scores, route>>
            ELSE /\ zone_pos' = 1
                 /\ Enter(Depot, ZoneNode(zs[1]), b, "time")
  /\ UNCHANGED <<assess_vars, similar_vars, estimate_vars, decision_vars>>

\* routes[zone] = route, then the next pass of the loop or the return
find_routes_next ==
  /\ pc = "returned"
  /\ caller = "find_routes_to_zones"
  /\ routes' = [z \in DOMAIN routes \cup {zones[zone_pos]} |->
                  IF z = zones[zone_pos] THEN route ELSE routes[z]]
  /\ IF zone_pos = Len(zones)
       THEN /\ pc' = "done"
            /\ UNCHANGED <<zone_pos, start, goal, blocked_roads, optimize_for,
                           open_set, closed_set, g_scores, route>>
       ELSE /\ zone_pos' = zone_pos + 1
            /\ Enter(start, ZoneNode(zones[zone_pos + 1]), blocked_roads, "time")
  /\ UNCHANGED <<caller, zones>>
  /\ UNCHANGED <<assess_vars, similar_vars, estimate_vars, decision_vars>>

RoutingInit ==
  /\ pc = "idle"
  /\ caller = "none"
  /\ start = "Central_Depot"
  /\ goal = "Central_Depot"
  /\ blocked_roads = {}
  /\ optimize_for = "time"
  /\ open_set = {}
  /\ closed_set = {}
  /\ g_scores = << >>
  /\ route = None
  /\ zones = <<>>
  /\ zone_pos = 0
  /\ routes = << >>

RoutingNext ==
  \/ a_star_route
  \/ a_star_iterate
  \/ a_star_exhausted
  \/ find_routes_to_zones
  \/ find_routes_next

(***************************************************************************)
(* scenarios.py: DEPOT_INVENTORY (central_depot, north_depot, south_depot) *)
(***************************************************************************)
DEPOT_INVENTORY ==
  <<[resources |-> [medical_kits |-> 10000, food_packets |-> 50000,
                    water_liters |-> 500000, shelter_kits |-> 2000,
                    oxygen_cylinders |-> 500, vaccines |-> 5000,
                    surgical_kits |-> 200],
     vehicles  |-> [trucks |-> 20, boats |-> 8, drones |-> 10, helicopters |-> 2]],
    [resources |-> [medical_kits |-> 5000, food_packets |-> 25000,
                    water_liters |-> 250000, shelter_kits |-> 1000,
                    oxygen_cylinders |-> 200, vaccines |-> 2000,
                    surgical_kits |-> 100],
     vehicles  |-> [trucks |-> 10, boats |-> 4, drones |-> 5, helicopters |-> 1]],
    [resources |-> [medical_kits |-> 5000, food_packets |-> 25000,
                    water_liters |-> 250000, shelter_kits |-> 1000,
                    oxygen_cylinders |-> 200, vaccines |-> 2000,
                    surgical_kits |-> 100],
     vehicles  |-> [trucks |-> 10, boats |-> 4, drones |-> 5, helicopters |-> 1]]>>

(***************************************************************************)
(* agent.py: check_inventory                                               *)
(***************************************************************************)
\* the keys of total_available
ResourceKeys ==
  {"medical_kits", "food_packets", "water_liters", "shelter_kits",
   "boats", "drones", "trucks", "helicopters"}

\* resource.replace("_required", "") on the keys of an estimate
ResourceKey(field) ==
  CASE field = "medical_kits_required" -> "medical_kits"
    [] field = "food_packets_required" -> "food_packets"
    [] field = "water_liters_required" -> "water_liters"
    [] field = "shelter_kits_required" -> "shelter_kits"
    [] field = "boats_required"        -> "boats"
    [] field = "drones_required"       -> "drones"
    [] field = "trucks_required"       -> "trucks"
    [] field = "helicopters_required"  -> "helicopters"
    [] OTHER                           -> field

\* isinstance(required_amount, (int, float))
IsNumber(v) == v.type = "int"

\* dict.get(key, default)
Get(dict, key, default) == IF key \in DOMAIN dict THEN dict[key] ELSE default

Max(a, b) == IF a >= b THEN a ELSE b

\* the loop over the depots: total_available[key] after depots 1..i
RECURSIVE DepotTotal(_, _, _)
DepotTotal(depots, key, i) ==
  IF i = 0 THEN 0
  ELSE DepotTotal(depots, key, i - 1)
         + Get(depots[i].resources, key, 0) + Get(depots[i].vehicles, key, 0)

\* the key of available_resources that can raise total_available[key]
OverrideKey(key) ==
  CASE key = "medical_kits" -> "medical_kits_available"
    [] key = "boats"        -> "boats_available"
    [] key = "drones"       -> "drones_available"
    [] key = "trucks"       -> "trucks_available"
    [] OTHER                -> "none"

\* mutant: the caller's figure replaces the depot total
TotalAvailable_Overwrite(depots, available, key) ==
  LET total == DepotTotal(depots, key, Len(depots))
  IN IF DOMAIN available # {} /\ OverrideKey(key) # "none"
       THEN Get(available, OverrideKey(key), 0)
       ELSE total

\* total_available[key] after lines 321-350
TotalAvailable(depots, available, key) ==
  LET total == DepotTotal(depots, key, Len(depots))
  IN IF DOMAIN available # {} /\ OverrideKey(key) # "none"
       THEN Max(total, Get(available, OverrideKey(key), 0))
       ELSE total

\* mutant: the gap is the plain difference
GapEntry_Signed(required_amount, available) ==
  [required  |-> required_amount,
   available |-> available,
   gap       |-> required_amount - available]

\* gaps[resource_key] (lines 359-364)
GapEntry(required_amount, available) ==
  [required  |-> required_amount,
   available |-> available,
   gap       |-> Max(0, required_amount - available)]

\* the dict check_inventory returns
CheckInventory(depots, required_est, available) ==
  LET fields == {f \in DOMAIN required_est : IsNumber(required_est[f])}
      field_of(key) == CHOOSE f \in fields : ResourceKey(f) = key
  IN [key \in {ResourceKey(f) : f \in fields} |->
        GapEntry(required_est[field_of(key)].value,
                 IF key \in ResourceKeys
                   THEN TotalAvailable(depots, available, key)
                   ELSE 0)]

(***************************************************************************)
(* agent.py: determine_risk_level (rule-based part, lines 428-449)         *)
(***************************************************************************)
\* lines 433-434; hospital load is held in 1/100 of the python value
NormalizeLoad(hospital_load) ==
  IF hospital_load <= 100 THEN hospital_load * 100 ELSE hospital_load

\* item["gap"] > 0 and item["gap"] > item["available"] * 0.3
CriticalGap(item) == item.gap > 0 /\ 10 * item.gap > 3 * item.available

\* mutant: the severity scale is read upside down (1 as the worst)
RiskCascade_Inverted(severity, hospital_load, has_critical_gap) ==
  IF severity <= 1 \/ hospital_load >= 9000 \/ has_critical_gap THEN "CRITICAL"
  ELSE IF severity <= 2 \/ hospital_load >= 7500 THEN "HIGH"
  ELSE IF severity <= 3 \/ hospital_load >= 5000 THEN "MODERATE"
  ELSE "LOW"

\* mutant: the supply gaps are not looked at
RiskCascade_NoGap(severity, hospital_load, has_critical_gap) ==
  IF severity >= 5 \/ hospital_load >= 9000 THEN "CRITICAL"
  ELSE IF severity >= 4 \/ hospital_load >= 7500 THEN "HIGH"
  ELSE IF severity >= 3 \/ hospital_load >= 5000 THEN "MODERATE"
  ELSE "LOW"

\* lines 442-449
RiskCascade(severity, hospital_load, has_critical_gap) ==
  IF severity >= 5 \/ hospital_load >= 9000 \/ has_critical_gap THEN "CRITICAL"
  ELSE IF severity >= 4 \/ hospital_load >= 7500 THEN "HIGH"
  ELSE IF severity >= 3 \/ hospital_load >= 5000 THEN "MODERATE"
  ELSE "LOW"

\* what self.risk_classifier gives one call: models not loaded or classifier
\* not trained, predict_risk_level raises, or the label it returns
ClassifierOff == [kind |-> "off"]

ClassifierRaises == [kind |-> "raises"]

Label(level) == [kind |-> "label", value |-> level]

\* lines 418-427: ml_risk, None when no label was obtained
MlRisk(classifier) ==
  IF classifier.kind = "label" THEN classifier.value ELSE "<None>"

\* mutant: the label of the classifier is returned when there is one
DetermineRiskLevel_MlPrimary(scen, inventory, classifier) ==
  LET ml_risk       == MlRisk(classifier)
      severity      == Get(scen, "severity_level", Get(scen, "severity", 3))
      hospital_load == Get(scen, "hospital_load_pct", Get(scen, "hospital_load", 5000))
  IN IF ml_risk # "<None>" THEN ml_risk
     ELSE RiskCascade(severity, NormalizeLoad(hospital_load),
                      \E key \in DOMAIN inventory : CriticalGap(inventory[key]))

\* lines 415-449; ml_risk is assigned and not read again
DetermineRiskLevel(scen, inventory, classifier) ==
  LET ml_risk       == MlRisk(classifier)
      severity      == Get(scen, "severity_level", Get(scen, "severity", 3))
      hospital_load == Get(scen, "hospital_load_pct", Get(scen, "hospital_load", 5000))
  IN RiskCascade(severity, NormalizeLoad(hospital_load),
                 \E key \in DOMAIN inventory : CriticalGap(inventory[key]))

(***************************************************************************)
(* Inputs of check_inventory and determine_risk_level                      *)
(***************************************************************************)
EstimateFields ==
  {"medical_kits_required", "food_packets_required", "water_liters_required",
   "shelter_kits_required", "boats_required", "drones_required",
   "trucks_required", "helicopters_required"}

Number(n) == [type |-> "int", value |-> n]

Text(s) == [type |-> "str", text |-> s]

ShippedTotal(key) == DepotTotal(DEPOT_INVENTORY, key, Len(DEPOT_INVENTORY))

\* required amounts around the depot total T of a resource, around 1.3 T
\* (where a gap becomes critical) and above 2 T (the raised figure below)
RequiredChoices(key) ==
  LET T == ShippedTotal(key)
  IN {T, T + 1, (13 * T) \div 10, (13 * T) \div 10 + 1, 2 * T + 1, (26 * T) \div 10 + 1}

\* an estimate as estimate_resources returns it: eight amounts, all 0 but
\* those of the fields in varied, and the prediction_method tag
EstimateWith(varied, amount) ==
  [f \in EstimateFields \cup {"prediction_method"} |->
     IF f = "prediction_method" THEN Text("rule_based")
     ELSE IF f \in varied THEN Number(amount[f]) ELSE Number(0)]

EstimateChoices ==
  UNION {{EstimateWith(varied, amount) :
            amount \in {a \in [varied -> UNION {RequiredChoices(ResourceKey(f)) : f \in varied}] :
                          \A f \in varied : a[f] \in RequiredChoices(ResourceKey(f))}} :
         varied \in SubsetsUpTo(EstimateFields, MaxVaried)}

\* models.py AvailableResources: the field defaults
DefaultAvailable ==
  [medical_kits_available |-> 1000, boats_available |-> 2,
   drones_available |-> 2, trucks_available |-> 5]

\* available_resources: none given, the defaults, all zero, or the defaults
\* with one figure at twice the depot total
AvailableChoices ==
  {<< >>, DefaultAvailable, [k \in DOMAIN DefaultAvailable |-> 0]}
    \cup {[DefaultAvailable EXCEPT ![OverrideKey(key)] = 2 * ShippedTotal(key)] :
            key \in {"medical_kits", "boats", "drones", "trucks"}}

\* hospital load values (1/100 of the python value): ratios 0 .. 1 and
\* percentages 2 .. 100
LoadChoices ==
  {0, 49, 50, 75, 90, 95, 100, 200, 4900, 5000, 7400, 7500, 8900, 9000, 9500, 10000}

\* scenarios with the current keys, with the legacy keys, with no key and
\* with both kinds of key
RiskScenarioChoices ==
  {[severity_level |-> s, hospital_load_pct |-> h] : s \in 1..5, h \in LoadChoices}
    \cup {[severity |-> s, hospital_load |-> h] : s \in 1..5, h \in {49, 95, 7500}}
    \cup {<< >>,
          [severity_level |-> 1, severity |-> 5,
           hospital_load_pct |-> 1000, hospital_load |-> 95]}

ClassifierChoices ==
  {ClassifierOff, ClassifierRaises}
    \cup {Label(level) : level \in {"LOW", "MODERATE", "HIGH", "CRITICAL"}}

\* the calls of determine_risk_level: every scenario with the classifier
\* off, and every outcome of the classifier on scenarios of each severity
\* below and above the load thresholds
RiskCallChoices ==
  (RiskScenarioChoices \X {ClassifierOff})
    \cup ({[severity_level |-> s, hospital_load_pct |-> h] : s \in 1..5, h \in {4900, 9500}}
            \X ClassifierChoices)

(***************************************************************************)
(* Actions: check_inventory, determine_risk_level                          *)
(***************************************************************************)
check_inventory ==
  /\ apc = "idle"
  /\ \E est \in EstimateChoices, avail \in AvailableChoices :
       /\ required' = est
       /\ available_resources' = avail
       /\ inventory_status' = CheckInventory(depot_inventory, est, avail)
  /\ apc' = "checked"
  /\ UNCHANGED <<depot_inventory, scenario, risk_classifier, risk_level>>
  /\ UNCHANGED <<routing_vars, similar_vars, estimate_vars, decision_vars>>

determine_risk_level ==
  /\ apc = "checked"
  /\ \E call \in RiskCallChoices :
       /\ scenario' = call[1]
       /\ risk_classifier' = call[2]
       /\ risk_level' = DetermineRiskLevel(call[1], inventory_status, call[2])
  /\ apc' = "classified"
  /\ UNCHANGED <<depot_inventory, required, available_resources, inventory_status>>
  /\ UNCHANGED <<routing_vars, similar_vars, estimate_vars, decision_vars>>

AssessInit ==
  /\ apc = "idle"
  /\ depot_inventory = DEPOT_INVENTORY
  /\ required = << >>
  /\ available_resources = << >>
  /\ inventory_status = << >>
  /\ scenario = << >>
  /\ risk_classifier = ClassifierOff
  /\ risk_level = "none"

(***************************************************************************)
(* Reference definitions for the routing claims, computed from the edge    *)
(* list alone (not from build_graph or the search).                        *)
(***************************************************************************)
\* the edges left once every edge with a blocked road name is removed
OpenEdges(blocked) == {i \in 1..Len(Edges) : Edges[i].road \notin blocked}

\* nodes reachable from the set seen over unblocked edges, either direction
RECURSIVE ReachableFrom(_, _)
ReachableFrom(seen, blocked) ==
  LET more == {Edges[i].to : i \in {j \in OpenEdges(blocked) : Edges[j].from \in seen}}
                \cup {Edges[i].from : i \in {j \in OpenEdges(blocked) : Edges[j].to \in seen}}
  IN IF more \subseteq seen THEN seen ELSE ReachableFrom(seen \cup more, blocked)

PathExists(s, g, blocked) == g \in ReachableFrom({s}, blocked)

\* more than the total time of all edges
Infinity == 1000 * 1000

MinOf(S) == CHOOSE x \in S : \A y \in S : x <= y

\* the value a set of <<node, value>> pairs holds for node n
ValueAt(pairs, n) == (CHOOSE p \in pairs : p[1] = n)[2]

\* Bellman-Ford: least total time_min from s to every node over paths of at
\* most k unblocked edges, as a set of <<node, time>> pairs
RECURSIVE LeastTime(_, _, _)
LeastTime(s, blocked, k) ==
  IF k = 0 THEN {<<n, IF n = s THEN 0 ELSE Infinity>> : n \in ROAD_NETWORK.nodes}
  ELSE LET d == LeastTime(s, blocked, k - 1)
       IN {<<n, MinOf({ValueAt(d, n)}
                      \cup {ValueAt(d, Edges[i].from) + Edges[i].time_min :
                             i \in {j \in OpenEdges(blocked) : Edges[j].to = n}}
                      \cup {ValueAt(d, Edges[i].to) + Edges[i].time_min :
                             i \in {j \in OpenEdges(blocked) : Edges[j].from = n}})>> :
            n \in ROAD_NETWORK.nodes}

MinTravelTime(s, g, blocked) == ValueAt(LeastTime(s, blocked, Len(NodeIds) - 1), g)

\* the edges of the network that join a and b under the road name r
EdgesBetween(a, b, r) ==
  {i \in 1..Len(Edges) :
     /\ Edges[i].road = r
     /\ \/ Edges[i].from = a /\ Edges[i].to = b
        \/ Edges[i].from = b /\ Edges[i].to = a}

\* the network edge behind entry i of r.roads_used
EdgeUsed(r, i) ==
  CHOOSE j \in EdgesBetween(r.path[i], r.path[i + 1], r.roads_used[i]) : TRUE

RECURSIVE EdgeTimeSum(_, _)
EdgeTimeSum(r, i) ==
  IF i > Len(r.roads_used) THEN 0
  ELSE Edges[EdgeUsed(r, i)].time_min + EdgeTimeSum(r, i + 1)

RECURSIVE EdgeDistanceSum(_, _)
EdgeDistanceSum(r, i) ==
  IF i > Len(r.roads_used) THEN 0
  ELSE Edges[EdgeUsed(r, i)].distance + EdgeDistanceSum(r, i + 1)

Returned == pc = "returned" /\ route.kind = "route"

(***************************************************************************)
(* Routing claims                                                          *)
(***************************************************************************)
\* C1: whenever a_star_route (optimize_for = time) returns a route, its
\* total_time_min is the least total travel time over all paths from start
\* to goal in the graph without the blocked edges.
C1_FirstGoalPopOptimal ==
  (Returned /\ optimize_for = "time")
    => route.total_time_min = MinTravelTime(start, goal, blocked_roads)

\* C2: a_star_route returns None exactly when start or goal is no node of
\* the network or no path joins them once the blocked edges are removed.
C2_NoneIffNoPath ==
  pc = "returned" =>
    (route = None <=>
       \/ start \notin ROAD_NETWORK.nodes
       \/ goal \notin ROAD_NETWORK.nodes
       \/ ~PathExists(start, goal, blocked_roads))

C2_Witness ==
  /\ pc = "returned"
  /\ route = None
  /\ start \in ROAD_NETWORK.nodes
  /\ goal \in ROAD_NETWORK.nodes
  /\ closed_set # {}

\* C3: total_time_min and total_distance_km of a returned route are the sums
\* of time_min and distance of the network edges named by roads_used, one
\* edge for each consecutive pair of path nodes.
C3_TotalsAreEdgeSums ==
  Returned =>
    /\ Len(route.roads_used) = Len(route.path) - 1
    /\ \A i \in 1..Len(route.roads_used) :
         EdgesBetween(route.path[i], route.path[i + 1], route.roads_used[i]) # {}
    /\ route.total_time_min = EdgeTimeSum(route, 1)
    /\ route.total_distance_km = EdgeDistanceSum(route, 1)

C3_Witness ==
  /\ Returned
  /\ Len(route.path) >= 4
  /\ optimize_for = "distance"

\* C4 as stated: for every zone node Z and any start node, if blocked_roads
\* holds the road name of every edge incident to Z, a_star_route to Z
\* returns None.
C4_ZoneCutOffAnyStart ==
  (pc = "returned" /\ goal \in ZoneNodeIds /\ IncidentRoads(goal) \subseteq blocked_roads)
    => route = None

\* C4 amended: the same for every start other than Z itself.
C4_ZoneCutOff ==
  (/\ pc = "returned"
   /\ goal \in ZoneNodeIds
   /\ IncidentRoads(goal) \subseteq blocked_roads
   /\ start # goal)
    => route = None

C4_Witness ==
  /\ pc = "returned"
  /\ goal = "Zone_South"
  /\ IncidentRoads(goal) \subseteq blocked_roads
  /\ start \in ROAD_NETWORK.nodes \ {goal}
  /\ closed_set # {}
  /\ route = None

NoBlockedRoad(r, blocked) ==
  r.kind = "route" => \A i \in 1..Len(r.roads_used) : r.roads_used[i] \notin blocked

\* C5: no route returned by a_star_route or held in the result of
\* find_routes_to_zones uses a road whose name is in blocked_roads.
C5_NoBlockedRoadUsed ==
  /\ pc = "returned" => NoBlockedRoad(route, blocked_roads)
  /\ \A z \in DOMAIN routes : NoBlockedRoad(routes[z], blocked_roads)

C5_Witness ==
  /\ pc = "done"
  /\ caller = "find_routes_to_zones"
  /\ blocked_roads = IncidentRoads("Zone_Central")
  /\ \E z \in DOMAIN routes :
       /\ routes[z].kind = "route"
       /\ Len(routes[z].roads_used) >= 2

\* what the search adds to the cost for an edge of the network, in 1/1000
EdgeCost(e, mode) == IF mode = "time" THEN e.time_min ELSE e.distance

\* Bellman-Ford over all edges of the network: least total cost from s to
\* every node over paths of at most k edges, as a set of <<node, cost>> pairs
RECURSIVE LeastCost(_, _, _)
LeastCost(s, mode, k) ==
  IF k = 0 THEN {<<n, IF n = s THEN 0 ELSE Infinity>> : n \in ROAD_NETWORK.nodes}
  ELSE LET d == LeastCost(s, mode, k - 1)
       IN {<<n, MinOf({ValueAt(d, n)}
                      \cup {ValueAt(d, Edges[i].from) + EdgeCost(Edges[i], mode) :
                             i \in {j \in 1..Len(Edges) : Edges[j].to = n}}
                      \cup {ValueAt(d, Edges[i].to) + EdgeCost(Edges[i], mode) :
                             i \in {j \in 1..Len(Edges) : Edges[j].from = n}})>> :
            n \in ROAD_NETWORK.nodes}

\* the cheapest cost to each goal from every node (the edges go both ways)
CheapestCost ==
  [mode \in {"time", "distance"} |->
     [g \in ROAD_NETWORK.nodes |-> LeastCost(g, mode, Len(NodeIds) - 1)]]

\* C23: the heuristic is admissible on the shipped network: for every node
\* the search of a call scores and the goal of the call, the heuristic
\* (great-circle km, or minutes at 30 km/h) is at most the cheapest cost from
\* the node to the goal over the edges of the network.
C23_HeuristicAdmissible ==
  pc = "search" =>
    \A n \in DOMAIN g_scores :
      heuristic(n, goal, optimize_for)
        <= 1000 * ValueAt(CheapestCost[optimize_for][goal], n)

\* C25: a returned route is a simple path: it starts at start and ends at
\* goal, every two consecutive nodes are joined by an edge of the network
\* that is not blocked and whose road name is the matching entry of
\* roads_used, there is one road less than nodes, path_coordinates gives the
\* coordinates of the path nodes in path order, and no node comes twice.
C25_RouteIsSimplePath ==
  Returned =>
    LET path == route.path
    IN /\ path[1] = start
       /\ path[Len(path)] = goal
       /\ Len(route.roads_used) = Len(path) - 1
       /\ \A i \in 1..Len(route.roads_used) :
            /\ route.roads_used[i] \notin blocked_roads
            /\ \E j \in 1..Len(Edges) :
                 /\ Edges[j].road = route.roads_used[i]
                 /\ {Edges[j].from, Edges[j].to} = {path[i], path[i + 1]}
       /\ Len(route.path_coordinates) = Len(path)
       /\ \A i \in 1..Len(path) :
            route.path_coordinates[i] = Coordinates[NodeIndex(path[i])]
       /\ \A i, j \in 1..Len(path) : path[i] = path[j] => i = j

\* a route of six nodes found around a blocked road
C25_Witness ==
  /\ Returned
  /\ Len(route.path) >= 6
  /\ blocked_roads # {}
  /\ \E i \in 1..Len(Edges) :
       /\ Edges[i].road \in blocked_roads
       /\ Edges[i].from = start

\* C26: every call of a_star_route comes to its return: a search that has
\* started ends, with a route or with None.  On the way every pass of the
\* loop either returns, or takes an entry of a closed node off the heap and
\* expands nothing, or closes one more node; a closed node is never opened
\* again.
C26_SearchTerminates ==
  /\ (pc = "search") ~> (pc = "returned")
  /\ [][pc = "search" =>
          \/ pc' = "returned"
          \/ /\ closed_set' = closed_set
             /\ open_set' \subseteq open_set
             /\ open_set' # open_set
          \/ /\ closed_set \subseteq closed_set'
             /\ Cardinality(closed_set') = Cardinality(closed_set) + 1]_routing_vars

\* a search over a cut network has emptied the heap after closing many
\* nodes and skipping entries of closed nodes
C26_Witness ==
  /\ pc = "returned"
  /\ route = None
  /\ open_set = {}
  /\ Cardinality(closed_set) >= 10
  /\ Cardinality(DOMAIN g_scores) = Cardinality(closed_set)

(***************************************************************************)
(* Inventory and risk claims                                               *)
(***************************************************************************)
RiskRank(level) ==
  CASE level = "LOW" -> 0 [] level = "MODERATE" -> 1 [] level = "HIGH" -> 2
    [] level = "CRITICAL" -> 3

\* the scenario's severity and its hospital load in 1/100 percent, as the
\* classifier reads them
SeverityOf(scen) ==
  IF "severity_level" \in DOMAIN scen THEN scen.severity_level
  ELSE IF "severity" \in DOMAIN scen THEN scen.severity ELSE 3

LoadPercentOf(scen) ==
  LET raw == IF "hospital_load_pct" \in DOMAIN scen THEN scen.hospital_load_pct
             ELSE IF "hospital_load" \in DOMAIN scen THEN scen.hospital_load ELSE 5000
  IN IF raw <= 100 THEN 100 * raw ELSE raw

SomeCriticalGap(inventory) ==
  \E key \in DOMAIN inventory :
    /\ inventory[key].gap > 0
    /\ 10 * inventory[key].gap > 3 * inventory[key].available

\* C6: determine_risk_level returns the first matching level of the cascade:
\* CRITICAL if severity >= 5 or load >= 90% or some resource has gap > 0 and
\* gap > 30% of its available stock; else HIGH if severity >= 4 or load >=
\* 75%; else MODERATE if severity >= 3 or load >= 50%; else LOW.  Severity 5
\* with load 95% is CRITICAL whatever the inventory.
C6_RiskCascade ==
  apc = "classified" =>
    LET sev  == SeverityOf(scenario)
        load == LoadPercentOf(scenario)
    IN /\ (sev >= 5 \/ load >= 9000 \/ SomeCriticalGap(inventory_status))
            => risk_level = "CRITICAL"
       /\ (~(sev >= 5 \/ load >= 9000 \/ SomeCriticalGap(inventory_status))
             /\ (sev >= 4 \/ load >= 7500))
            => risk_level = "HIGH"
       /\ (~(sev >= 5 \/ load >= 9000 \/ SomeCriticalGap(inventory_status))
             /\ ~(sev >= 4 \/ load >= 7500)
             /\ (sev >= 3 \/ load >= 5000))
            => risk_level = "MODERATE"
       /\ (~(sev >= 5 \/ load >= 9000 \/ SomeCriticalGap(inventory_status))
             /\ ~(sev >= 4 \/ load >= 7500)
             /\ ~(sev >= 3 \/ load >= 5000))
            => risk_level = "LOW"
       /\ (sev = 5 /\ load = 9500) => risk_level = "CRITICAL"

\* a scenario below every threshold that is CRITICAL through a supply gap
C6_Witness ==
  /\ apc = "classified"
  /\ SeverityOf(scenario) = 2
  /\ LoadPercentOf(scenario) = 4900
  /\ SomeCriticalGap(inventory_status)
  /\ risk_level = "CRITICAL"

WithSeverity(scen, s) ==
  [k \in DOMAIN scen \cup {"severity_level"} |->
     IF k = "severity_level" THEN s ELSE scen[k]]

NoGaps(inventory) == \A key \in DOMAIN inventory : inventory[key].gap = 0

\* C7: for a fixed hospital load and an inventory with all gaps zero, the
\* risk level never decreases when the severity rises from 1 to 5.
C7_MonotoneInSeverity ==
  NoGaps(inventory_status) =>
    \A s1 \in 1..5 : \A s2 \in s1..5 :
      RiskRank(DetermineRiskLevel(WithSeverity(scenario, s1), inventory_status, risk_classifier))
        <= RiskRank(DetermineRiskLevel(WithSeverity(scenario, s2), inventory_status, risk_classifier))

C7_Witness ==
  /\ apc = "classified"
  /\ NoGaps(inventory_status)
  /\ DOMAIN inventory_status # {}
  /\ SeverityOf(scenario) = 3
  /\ risk_level = "MODERATE"
  /\ DetermineRiskLevel(WithSeverity(scenario, 1), inventory_status, risk_classifier) = "LOW"
  /\ DetermineRiskLevel(WithSeverity(scenario, 5), inventory_status, risk_classifier) = "CRITICAL"

\* the scenario with another hospital_load_pct, in 1/100 percent
WithLoad(scen, h) ==
  [k \in DOMAIN scen \cup {"hospital_load_pct"} |->
     IF k = "hospital_load_pct" THEN h ELSE scen[k]]

\* hospital loads ScenarioInput accepts (0 <= hospital_load_pct <= 100):
\* 0, 0.5, 1, 2 and 49 percent and the thresholds of the cascade
AcceptedLoads == {0, 50, 100, 200, 4900, 5000, 7500, 9000, 10000}

\* C28: for a fixed severity and an inventory with all gaps zero, the risk
\* level never decreases when hospital_load_pct rises within 0..100, small
\* values such as 0, 1 and 2 included.
C28_MonotoneInHospitalLoad ==
  (apc = "classified" /\ NoGaps(inventory_status)) =>
    \A h1 \in AcceptedLoads : \A h2 \in AcceptedLoads :
      h1 <= h2 =>
        RiskRank(DetermineRiskLevel(WithLoad(scenario, h1), inventory_status, risk_classifier))
          <= RiskRank(DetermineRiskLevel(WithLoad(scenario, h2), inventory_status, risk_classifier))

C8_GapIsShortfall ==
  apc # "idle" =>
    /\ DOMAIN inventory_status = {ResourceKey(f) : f \in EstimateFields}
    /\ "prediction_method" \notin DOMAIN inventory_status
    /\ \A f \in EstimateFields :
         LET item == inventory_status[ResourceKey(f)]
         IN /\ item.required = required[f].value
            /\ item.gap >= 0
            /\ item.gap = 0 <=> item.available >= item.required
            /\ item.gap > 0 => item.gap = item.required - item.available

C8_Witness ==
  /\ apc = "checked"
  /\ inventory_status["medical_kits"].gap = 1
  /\ inventory_status["boats"].gap = 0
  /\ inventory_status["medical_kits"].available = 2 * ShippedTotal("medical_kits")

\* the sum of a resource over the three shipped depots
SumOverDepots(key) ==
  LET have(d) == IF key \in DOMAIN d.resources THEN d.resources[key]
                 ELSE IF key \in DOMAIN d.vehicles THEN d.vehicles[key] ELSE 0
  IN have(DEPOT_INVENTORY[1]) + have(DEPOT_INVENTORY[2]) + have(DEPOT_INVENTORY[3])

\* C9: the available figure of a resource is its sum over all depots, raised
\* to the caller's figure when that is larger (medical kits, boats, drones,
\* trucks) and never lowered; the depot inventory is left as it was.
C9_OverrideOnlyRaises ==
  apc # "idle" =>
    /\ depot_inventory = DEPOT_INVENTORY
    /\ \A key \in DOMAIN inventory_status :
         LET item     == inventory_status[key]
             override == IF OverrideKey(key) \in DOMAIN available_resources
                           THEN available_resources[OverrideKey(key)] ELSE 0
         IN /\ item.available >= SumOverDepots(key)
            /\ item.available = IF override > SumOverDepots(key)
                                  THEN override ELSE SumOverDepots(key)

\* one figure above the depot total is taken, the others, below, are not
C9_Witness ==
  /\ apc = "checked"
  /\ DOMAIN available_resources # {}
  /\ available_resources.boats_available > SumOverDepots("boats")
  /\ available_resources.trucks_available < SumOverDepots("trucks")
  /\ inventory_status["boats"].available = available_resources.boats_available
  /\ inventory_status["trucks"].available = SumOverDepots("trucks")

(***************************************************************************)
(* Similar scenarios (agent.py).  Populations are in thousands of persons, *)
(* hospital loads in 1/100 of the Python value, water levels in cm; the    *)
(* distance is kept in 1/10000 and rounded to 1/1000 as round(dist, 3).    *)
(* The tables keep the fields the similarity reads.                        *)
(***************************************************************************)
CHENNAI_SCENARIOS ==
  << [id |-> "chennai_flood_1", disaster_type |-> "flood", severity |-> 2,
      population_affected |-> 12, zones_affected |-> <<"North", "Central">>,
      hospital_load |-> 65, blocked_roads |-> <<"OMR">>,
      wind_speed_kmh |-> 35, flood_depth_m |-> 50,
      resources_deployed |-> [medical_kits |-> 800, boats |-> 2,
      trucks |-> 5, drones |-> 1], outcome |-> "successful"],
     [id |-> "chennai_flood_2", disaster_type |-> "flood", severity |-> 4,
      population_affected |-> 25, zones_affected |-> <<"East", "West",
      "Central">>, hospital_load |-> 82, blocked_roads |-> <<"OMR",
      "Anna_Salai">>, wind_speed_kmh |-> 65, flood_depth_m |-> 120,
      resources_deployed |-> [medical_kits |-> 2000, boats |-> 5,
      trucks |-> 8, drones |-> 3], outcome |-> "successful"],
     [id |-> "chennai_flood_3", disaster_type |-> "flood", severity |-> 5,
      population_affected |-> 45, zones_affected |-> <<"North", "South",
      "East", "West", "Central">>, hospital_load |-> 93,
      blocked_roads |-> <<"OMR", "Anna_Salai", "Mount_Road", "ECR">>,
      wind_speed_kmh |-> 80, flood_depth_m |-> 200,
      resources_deployed |-> [medical_kits |-> 5000, boats |-> 10,
      trucks |-> 15, drones |-> 6, helicopters |-> 2], outcome |-> "partial"],
     [id |-> "chennai_flood_4", disaster_type |-> "flood", severity |-> 3,
      population_affected |-> 18, zones_affected |-> <<"South", "Central">>,
      hospital_load |-> 70, blocked_roads |-> <<"ECR">>,
      wind_speed_kmh |-> 45, flood_depth_m |-> 70,
      resources_deployed |-> [medical_kits |-> 1200, boats |-> 3,
      trucks |-> 6, drones |-> 2], outcome |-> "successful"],
     [id |-> "chennai_flood_5", disaster_type |-> "flood", severity |-> 4,
      population_affected |-> 30, zones_affected |-> <<"North", "East">>,
      hospital_load |-> 85, blocked_roads |-> <<"OMR", "Velachery_Main">>,
      wind_speed_kmh |-> 70, flood_depth_m |-> 140,
      resources_deployed |-> [medical_kits |-> 2500, boats |-> 6,
      trucks |-> 10, drones |-> 4], outcome |-> "successful"],
     [id |-> "chennai_cyclone_1", disaster_type |-> "cyclone",
      severity |-> 3, population_affected |-> 20,
      zones_affected |-> <<"East", "South">>, hospital_load |-> 60,
      blocked_roads |-> <<"ECR", "OMR">>, wind_speed_kmh |-> 120,
      flood_depth_m |-> 30, resources_deployed |-> [medical_kits |-> 1500,
      boats |-> 2, trucks |-> 7, drones |-> 3], outcome |-> "successful"],
     [id |-> "chennai_cyclone_2", disaster_type |-> "cyclone",
      severity |-> 4, population_affected |-> 35,
      zones_affected |-> <<"East", "South", "Central">>,
      hospital_load |-> 78, blocked_roads |-> <<"ECR", "OMR", "Marina">>,
      wind_speed_kmh |-> 150, flood_depth_m |-> 60,
      resources_deployed |-> [medical_kits |-> 3000, boats |-> 4,
      trucks |-> 12, drones |-> 5, helicopters |-> 1],
      outcome |-> "successful"],
     [id |-> "chennai_cyclone_3", disaster_type |-> "cyclone",
      severity |-> 5, population_affected |-> 55,
      zones_affected |-> <<"North", "South", "East", "West", "Central">>,
      hospital_load |-> 92, blocked_roads |-> <<"ECR", "OMR", "Marina",
      "Mount_Road", "Anna_Salai">>, wind_speed_kmh |-> 180,
      flood_depth_m |-> 100, resources_deployed |-> [medical_kits |-> 6000,
      boats |-> 8, trucks |-> 18, drones |-> 8, helicopters |-> 3],
      outcome |-> "partial"],
     [id |-> "chennai_cyclone_4", disaster_type |-> "cyclone",
      severity |-> 2, population_affected |-> 10,
      zones_affected |-> <<"East">>, hospital_load |-> 45,
      blocked_roads |-> <<"ECR">>, wind_speed_kmh |-> 90,
      flood_depth_m |-> 20, resources_deployed |-> [medical_kits |-> 700,
      boats |-> 1, trucks |-> 4, drones |-> 2], outcome |-> "successful"],
     [id |-> "chennai_cyclone_5", disaster_type |-> "cyclone",
      severity |-> 4, population_affected |-> 40,
      zones_affected |-> <<"South", "West", "Central">>,
      hospital_load |-> 80, blocked_roads |-> <<"Anna_Salai", "Mount_Road">>,
      wind_speed_kmh |-> 140, flood_depth_m |-> 50,
      resources_deployed |-> [medical_kits |-> 3500, boats |-> 5,
      trucks |-> 14, drones |-> 6], outcome |-> "successful"],
     [id |-> "chennai_heatwave_1", disaster_type |-> "heatwave",
      severity |-> 3, population_affected |-> 50,
      zones_affected |-> <<"North", "Central", "West">>,
      hospital_load |-> 72, blocked_roads |-> <<>>, temperature_c |-> 44,
      resources_deployed |-> [medical_kits |-> 2000, water_liters |-> 100000,
      cooling_units |-> 50, trucks |-> 10], outcome |-> "successful"],
     [id |-> "chennai_heatwave_2", disaster_type |-> "heatwave",
      severity |-> 4, population_affected |-> 80,
      zones_affected |-> <<"North", "South", "Central", "West">>,
      hospital_load |-> 85, blocked_roads |-> <<>>, temperature_c |-> 47,
      resources_deployed |-> [medical_kits |-> 4000, water_liters |-> 200000,
      cooling_units |-> 100, trucks |-> 18], outcome |-> "successful"],
     [id |-> "chennai_heatwave_3", disaster_type |-> "heatwave",
      severity |-> 5, population_affected |-> 120,
      zones_affected |-> <<"North", "South", "East", "West", "Central">>,
      hospital_load |-> 95, blocked_roads |-> <<>>, temperature_c |-> 50,
      resources_deployed |-> [medical_kits |-> 7000, water_liters |-> 350000,
      cooling_units |-> 200, trucks |-> 25], outcome |-> "partial"],
     [id |-> "chennai_heatwave_4", disaster_type |-> "heatwave",
      severity |-> 2, population_affected |-> 25,
      zones_affected |-> <<"Central">>, hospital_load |-> 50,
      blocked_roads |-> <<>>, temperature_c |-> 42,
      resources_deployed |-> [medical_kits |-> 1000, water_liters |-> 50000,
      cooling_units |-> 25, trucks |-> 5], outcome |-> "successful"],
     [id |-> "chennai_heatwave_5", disaster_type |-> "heatwave",
      severity |-> 3, population_affected |-> 60,
      zones_affected |-> <<"South", "East">>, hospital_load |-> 68,
      blocked_roads |-> <<>>, temperature_c |-> 45,
      resources_deployed |-> [medical_kits |-> 2500, water_liters |-> 120000,
      cooling_units |-> 60, trucks |-> 12], outcome |-> "successful"] >>

ScenarioFilePool ==
  { [id |-> "chennai_flood_1", disaster_type |-> "flood", severity |-> 2,
     population_affected |-> 12, zones_affected |-> <<"North", "Central">>,
     hospital_load |-> 65, blocked_roads |-> <<"OMR">>,
     wind_speed_kmh |-> 35, flood_depth_m |-> 50,
     resources_deployed |-> [medical_kits |-> 800, boats |-> 2, trucks |-> 5,
     drones |-> 1], outcome |-> "successful"],
    [id |-> "chennai_flood_1_copy", disaster_type |-> "flood",
     severity |-> 2, population_affected |-> 12,
     zones_affected |-> <<"North", "Central">>, hospital_load |-> 65,
     blocked_roads |-> <<"OMR">>, wind_speed_kmh |-> 35,
     flood_depth_m |-> 50, resources_deployed |-> [medical_kits |-> 800,
     boats |-> 2, trucks |-> 5, drones |-> 1], outcome |-> "successful"],
    [id |-> "json_flood", disaster_type |-> "flood", severity_level |-> 4,
     population_affected |-> 25, zones_impacted |-> <<"North", "Central",
     "South">>, hospital_load_pct |-> 8200, blocked_roads |-> <<"OMR",
     "ECR">>, disaster_specific |-> [flood |-> [water_level_m |-> 120]]],
    [id |-> "chennai_cyclone_1", disaster_type |-> "cyclone", severity |-> 3,
     population_affected |-> 20, zones_affected |-> <<"East", "South">>,
     hospital_load |-> 60, blocked_roads |-> <<"ECR", "OMR">>,
     wind_speed_kmh |-> 120, flood_depth_m |-> 30,
     resources_deployed |-> [medical_kits |-> 1500, boats |-> 2,
     trucks |-> 7, drones |-> 3], outcome |-> "successful"],
    [id |-> "chennai_heatwave_1", disaster_type |-> "heatwave",
     severity |-> 3, population_affected |-> 50,
     zones_affected |-> <<"North", "Central", "West">>, hospital_load |-> 72,
     blocked_roads |-> <<>>, temperature_c |-> 44,
     resources_deployed |-> [medical_kits |-> 2000, water_liters |-> 100000,
     cooling_units |-> 50, trucks |-> 10], outcome |-> "successful"],
    [id |-> "untyped"] }

CurrentChoices ==
  { [disaster_type |-> "flood", severity_level |-> 3,
     population_affected |-> 20, zones_impacted |-> <<"North", "South">>,
     hospital_load_pct |-> 7000, blocked_roads |-> <<>>,
     disaster_specific |-> << >>],
    [disaster_type |-> "flood", severity_level |-> 3,
     population_affected |-> 20, zones_impacted |-> <<"North", "South">>,
     hospital_load_pct |-> 7000, blocked_roads |-> <<>>,
     disaster_specific |-> [flood |-> [water_level_m |-> 100],
     cyclone |-> None, earthquake |-> None, heatwave |-> None]],
    [disaster_type |-> "flood", severity_level |-> 3,
     population_affected |-> 20, zones_impacted |-> <<"North", "South">>,
     hospital_load_pct |-> 7000, blocked_roads |-> <<>>,
     disaster_specific |-> [flood |-> None, cyclone |-> None,
     earthquake |-> None, heatwave |-> None]],
    [disaster_type |-> "cyclone", severity_level |-> 3,
     population_affected |-> 20, zones_impacted |-> <<"North", "South">>,
     hospital_load_pct |-> 7000, blocked_roads |-> <<>>,
     disaster_specific |-> [flood |-> None,
     cyclone |-> [max_wind_speed_kmph |-> 120], earthquake |-> None,
     heatwave |-> None]],
    [disaster_type |-> "heatwave", severity_level |-> 3,
     population_affected |-> 20, zones_impacted |-> <<"North", "South">>,
     hospital_load_pct |-> 7000, blocked_roads |-> <<>>],
    [disaster_type |-> "earthquake", severity_level |-> 3,
     population_affected |-> 20, zones_impacted |-> <<"North", "South">>,
     hospital_load_pct |-> 7000, blocked_roads |-> <<>>,
     disaster_specific |-> [flood |-> None, cyclone |-> None,
     earthquake |-> None, heatwave |-> None]],
    [severity_level |-> 3, population_affected |-> 20,
     zones_impacted |-> <<"North", "South">>, hospital_load_pct |-> 7000,
     blocked_roads |-> <<>>],
    [disaster_type |-> "flood", severity |-> 2, population_affected |-> 12,
     zones_affected |-> <<"North", "Central">>, hospital_load |-> 65,
     blocked_roads |-> <<"OMR">>],
    [disaster_type |-> "landslide"] }

TopKChoices == 0..MaxTopK

\* the sequences of at most n distinct scenario files
RECURSIVE DistinctSeqs(_, _)
DistinctSeqs(S, n) ==
  IF n = 0 THEN {<< >>}
  ELSE LET shorter == DistinctSeqs(S, n - 1)
       IN shorter \cup
          UNION {{Append(q, x) : x \in S \ {q[i] : i \in 1..Len(q)}} :
                 q \in {p \in shorter : Len(p) = n - 1}}

\* what the data directory can hold: no file, or up to MaxCorpus files
CorpusChoices == DistinctSeqs(ScenarioFilePool, MaxCorpus)

Abs(x) == IF x < 0 THEN -x ELSE x

Min(a, b) == IF a < b THEN a ELSE b

RECURSIVE SqrtBetween(_, _, _)
SqrtBetween(x, lo, hi) ==
  IF lo = hi THEN lo
  ELSE LET mid == (lo + hi + 1) \div 2
       IN IF mid * mid <= x THEN SqrtBetween(x, mid, hi)
          ELSE SqrtBetween(x, lo, mid - 1)

\* floor of the square root
Sqrt(x) == SqrtBetween(x, 0, 46340)

NoType == "<None>"

TypeOf(s) == Get(s, "disaster_type", NoType)

\* hospital load on the 0-1 scale, in 1/10000
NormalizeHospital(load) == IF load > 100 THEN load ELSE 100 * load

\* disaster_specific.get(kind, {}) if disaster_specific else {}
SpecificOf(s, kind) ==
  LET disaster_specific == Get(s, "disaster_specific", << >>)
  IN IF DOMAIN disaster_specific = {} THEN << >>
     ELSE Get(disaster_specific, kind, << >>)

SpecificKind(disaster_type) ==
  IF disaster_type \in {"flood", "cyclone", "heatwave"} THEN disaster_type
  ELSE NoType

\* the .get on a None entry of disaster_specific raises AttributeError
SimilarityRaises(current, historical) ==
  /\ TypeOf(current) = TypeOf(historical)
  /\ SpecificKind(TypeOf(current)) # NoType
  /\ \/ SpecificOf(current, TypeOf(current)) = None
     \/ SpecificOf(historical, TypeOf(current)) = None

\* the disaster-specific penalty in 1/10000: |x - y| * 0.3 for water levels
\* in m, / 200 * 0.3 for wind speeds, / 20 * 0.3 for temperatures
SpecificPenalty(current, historical) ==
  LET disaster_type == TypeOf(current)
      curr == SpecificOf(current, disaster_type)
      hist == SpecificOf(historical, disaster_type)
  IN IF TypeOf(current) # TypeOf(historical) THEN 0
     ELSE IF disaster_type = "flood" THEN
       LET legacy == Get(historical, "flood_depth_m", 50)
       IN 30 * Abs(Get(curr, "water_level_m", legacy)
                     - Get(hist, "water_level_m", legacy))
     ELSE IF disaster_type = "cyclone" THEN
       LET legacy == Get(historical, "wind_speed_kmh", 100)
       IN 15 * Abs(Get(curr, "max_wind_speed_kmph", legacy)
                     - Get(hist, "max_wind_speed_kmph", legacy))
     ELSE IF disaster_type = "heatwave" THEN
       LET legacy == Get(historical, "temperature_c", 45)
       IN 150 * Abs(Get(curr, "max_temp_c", legacy)
                      - Get(hist, "max_temp_c", legacy))
     ELSE 0

\* the weighted distance in 1/10000: the squared terms are scaled by 10^8
\* (2.0/25, 1.5/10^4 per thousand persons squared, 1.8, 1.0/25, 1.2/25)
calculate_scenario_similarity(current, historical) ==
  LET severity_diff ==
        Abs(Get(current, "severity_level", Get(current, "severity", 3))
              - Get(historical, "severity_level", Get(historical, "severity", 3)))
      pop_diff ==
        Abs(Get(current, "population_affected", 10)
              - Get(historical, "population_affected", 10))
      hospital_diff ==
        Abs(NormalizeHospital(Get(current, "hospital_load_pct",
                                  Get(current, "hospital_load", 5000)))
              - NormalizeHospital(Get(historical, "hospital_load_pct",
                                      Get(historical, "hospital_load", 50))))
      zones_diff ==
        Abs(Len(Get(current, "zones_impacted", Get(current, "zones_affected", << >>)))
              - Len(Get(historical, "zones_impacted",
                        Get(historical, "zones_affected", << >>))))
      blocked_diff ==
        Abs(Len(Get(current, "blocked_roads", << >>))
              - Len(Get(historical, "blocked_roads", << >>)))
  IN Sqrt(8000000 * severity_diff * severity_diff
            + 15000 * pop_diff * pop_diff
            + (9 * hospital_diff * hospital_diff) \div 5
            + 4000000 * zones_diff * zones_diff
            + 4800000 * blocked_diff * blocked_diff)
       + SpecificPenalty(current, historical)

\* round(dist, 3), in 1/1000
Round3(dist) == (dist + 5) \div 10

\* mutant: an entry goes in front of the entries of equal distance
Insert_BeforeEqual(sorted, entry) ==
  LET k == Cardinality({i \in 1..Len(sorted) : sorted[i].distance < entry.distance})
  IN SubSeq(sorted, 1, k) \o <<entry>> \o SubSeq(sorted, k + 1, Len(sorted))

\* list.sort is stable: an entry goes behind the entries of equal distance
Insert(sorted, entry) ==
  LET k == Cardinality({i \in 1..Len(sorted) : sorted[i].distance <= entry.distance})
  IN SubSeq(sorted, 1, k) \o <<entry>> \o SubSeq(sorted, k + 1, Len(sorted))

RECURSIVE SortByDistance(_, _)
SortByDistance(similarities, i) ==
  IF i = 0 THEN << >>
  ELSE Insert(SortByDistance(similarities, i - 1), similarities[i])

\* similarities[:top_k]; a negative top_k counts from the end
Slice(similarities, k) ==
  IF k >= 0 THEN SubSeq(similarities, 1, Min(k, Len(similarities)))
  ELSE SubSeq(similarities, 1, Len(similarities) + k)

SameType(all_scenarios, current) ==
  LET same_type == SelectSeq(all_scenarios, LAMBDA s : TypeOf(s) = TypeOf(current))
  IN IF same_type = << >> THEN all_scenarios ELSE same_type

FindSimilar(all_scenarios, current, k) ==
  LET same_type == SameType(all_scenarios, current)
      similarities ==
        [i \in 1..Len(same_type) |->
           [scenario |-> same_type[i],
            distance |-> Round3(calculate_scenario_similarity(current, same_type[i]))]]
  IN Slice(SortByDistance(similarities, Len(similarities)), k)

(***************************************************************************)
(* Actions: _load_historical_scenarios, find_similar_scenarios             *)
(***************************************************************************)
_load_historical_scenarios ==
  /\ spc = "constructing"
  /\ \E scenarios \in CorpusChoices :
       historical_scenarios' =
         IF scenarios = << >> THEN CHENNAI_SCENARIOS ELSE scenarios
  /\ spc' = "ready"
  /\ UNCHANGED <<query, top_k, similar>>
  /\ UNCHANGED <<routing_vars, assess_vars, estimate_vars, decision_vars>>

find_similar_scenarios ==
  /\ spc = "ready"
  /\ \E scen \in CurrentChoices, k \in TopKChoices :
       LET all_scenarios == IF historical_scenarios # << >>
                              THEN historical_scenarios ELSE CHENNAI_SCENARIOS
           same_type == SameType(all_scenarios, scen)
       IN /\ query' = scen
          /\ top_k' = k
          /\ IF \E i \in 1..Len(same_type) : SimilarityRaises(scen, same_type[i])
               THEN /\ similar' = << >>
                    /\ spc' = "raised"
               ELSE /\ similar' = FindSimilar(all_scenarios, scen, k)
                    /\ spc' = "returned"
  /\ UNCHANGED historical_scenarios
  /\ UNCHANGED <<routing_vars, assess_vars, estimate_vars, decision_vars>>

SimilarInit ==
  /\ spc = "constructing"
  /\ historical_scenarios = << >>
  /\ query = << >>
  /\ top_k = 0
  /\ similar = << >>

SimilarNext == _load_historical_scenarios \/ find_similar_scenarios

(***************************************************************************)
(* Similar scenarios claim                                                 *)
(***************************************************************************)
\* C10: find_similar_scenarios takes as candidates the corpus entries with
\* the scenario's disaster_type, or the whole corpus when no entry has that
\* type, so that a non-empty corpus gives a non-empty result for top_k >= 1;
\* the result has at most top_k entries, holds the nearest candidates in
\* ascending order of distance, and keeps equal distances in corpus order.
C10_NearestCandidatesInOrder ==
  spc = "returned" =>
    LET corpus == historical_scenarios
        typed == {i \in 1..Len(corpus) :
                    Get(corpus[i], "disaster_type", NoType)
                      = Get(query, "disaster_type", NoType)}
        candidates == IF typed = {} THEN 1..Len(corpus) ELSE typed
        dist(i) == Round3(calculate_scenario_similarity(query, corpus[i]))
        place(i) == CHOOSE c \in 1..Len(corpus) : corpus[c] = similar[i].scenario
        results == 1..Len(similar)
    IN /\ Len(similar) <= top_k
       /\ Len(similar) = IF top_k < Cardinality(candidates)
                           THEN top_k ELSE Cardinality(candidates)
       /\ (corpus # << >> /\ top_k >= 1) => similar # << >>
       /\ \A i \in results :
            /\ place(i) \in candidates
            /\ similar[i].distance = dist(place(i))
       /\ \A i, j \in results :
            i < j => \/ similar[i].distance < similar[j].distance
                     \/ /\ similar[i].distance = similar[j].distance
                        /\ place(i) < place(j)
       /\ \A c \in candidates \ {place(i) : i \in results} :
            \A i \in results :
              \/ similar[i].distance < dist(c)
              \/ similar[i].distance = dist(c) /\ place(i) < c

\* no entry has the scenario's type, the result is cut to top_k, and two
\* entries of equal distance come out as the corpus has them
C10_Witness ==
  /\ spc = "returned"
  /\ \A i \in 1..Len(historical_scenarios) :
       TypeOf(historical_scenarios[i]) # TypeOf(query)
  /\ top_k < Len(historical_scenarios)
  /\ Len(similar) = top_k
  /\ \E i \in 1..(Len(similar) - 1) :
       /\ similar[i].distance = similar[i + 1].distance
       /\ similar[i].scenario.id = "chennai_flood_1_copy"
       /\ similar[i + 1].scenario.id = "chennai_flood_1"

(***************************************************************************)
(* agent.py: estimate_resources.  Water levels are in cm, collapse ratios  *)
(* in 1/100, magnitudes in 1/10; populations in thousands of persons.      *)
(***************************************************************************)
\* what self.demand_model gives one call: no model loaded, predict raises,
\* or the prediction dict
NotLoaded == [kind |-> "not_loaded"]

Raises == [kind |-> "raises"]

Prediction(medical, food, water, shelter) ==
  [kind |-> "prediction",
   value |-> [medical_kits_required |-> medical, food_packets_required |-> food,
              water_liters_required |-> water, shelter_kits_required |-> shelter]]

\* mutant: a failed predict leaves an empty prediction behind
BasePrediction_EmptyOnRaise(predictor) ==
  IF predictor.kind = "not_loaded" THEN None ELSE Get(predictor, "value", << >>)

\* lines 196-205: base_prediction, None when no prediction was obtained
BasePrediction(predictor) ==
  IF predictor.kind = "prediction" /\ DOMAIN predictor.value # {}
    THEN predictor.value ELSE None

\* int(0.7 * ml + 0.3 * rule)
Blend(ml, rule) == (7 * ml + 3 * rule) \div 10

\* scenario.get("disaster_specific", {}).get(kind) when both are truthy,
\* else None
TruthySpecific(scen, kind) ==
  LET disaster_specific == Get(scen, "disaster_specific", << >>)
  IN IF DOMAIN disaster_specific = {} THEN None
     ELSE LET data == Get(disaster_specific, kind, None)
          IN IF data = None \/ DOMAIN data = {} THEN None ELSE data

\* mutant: the historical mean is blended in first, the prediction after it
MedicalKitsNeeded_HistoryFirst(scen, similar_scenarios, base_prediction) ==
  LET population == Get(scen, "population_affected", 10)
      hospital_load ==
        NormalizeHospital(Get(scen, "hospital_load_pct", Get(scen, "hospital_load", 5000)))
      people_needing_care == (population * hospital_load) \div 50
      by_rule == Max(100, people_needing_care \div 10)
      n == Len(similar_scenarios)
      kits(i) == Get(Get(similar_scenarios[i].scenario, "resources_deployed", << >>),
                     "medical_kits", 0)
      RECURSIVE SumKits(_)
      SumKits(i) == IF i = 0 THEN 0 ELSE SumKits(i - 1) + kits(i)
      averaged == IF n = 0 \/ SumKits(n) = 0 THEN by_rule
                  ELSE (by_rule * n + SumKits(n)) \div (2 * n)
  IN IF base_prediction = None THEN averaged
     ELSE Blend(Get(base_prediction, "medical_kits_required", by_rule), averaged)

\* lines 224-241: medical kits by rule, blended with the prediction and
\* with the mean of the kits deployed in the similar scenarios
MedicalKitsNeeded(scen, similar_scenarios, base_prediction) ==
  LET population == Get(scen, "population_affected", 10)
      hospital_load ==
        NormalizeHospital(Get(scen, "hospital_load_pct", Get(scen, "hospital_load", 5000)))
      people_needing_care == (population * hospital_load) \div 50
      by_rule == Max(100, people_needing_care \div 10)
      blended == IF base_prediction = None THEN by_rule
                 ELSE Blend(Get(base_prediction, "medical_kits_required", by_rule), by_rule)
      n == Len(similar_scenarios)
      kits(i) == Get(Get(similar_scenarios[i].scenario, "resources_deployed", << >>),
                     "medical_kits", 0)
      RECURSIVE SumKits(_)
      SumKits(i) == IF i = 0 THEN 0 ELSE SumKits(i - 1) + kits(i)
  IN IF n = 0 \/ SumKits(n) = 0 THEN blended
     ELSE (blended * n + SumKits(n)) \div (2 * n)

\* mutant: the water level is not looked at
HelicoptersNeeded_NoWaterRule(scen, severity) ==
  LET disaster_type == Get(scen, "disaster_type", "flood")
      at_4 == IF severity >= 4 THEN 1 ELSE 0
      at_5 == IF severity >= 5 THEN Max(at_4, 2) ELSE at_4
      eq_data == TruthySpecific(scen, "earthquake")
      collapse_ratio == IF eq_data = None THEN 0 ELSE Get(eq_data, "building_collapse_ratio", 10)
  IN IF disaster_type \in {"flood", "cyclone"} THEN at_5
     ELSE IF disaster_type = "earthquake" THEN
       IF collapse_ratio > 30 THEN 2 ELSE IF collapse_ratio > 20 THEN 1 ELSE 0
     ELSE 0

\* lines 247-279: helicopters_needed
HelicoptersNeeded(scen, severity) ==
  LET disaster_type == Get(scen, "disaster_type", "flood")
      flood_data == TruthySpecific(scen, "flood")
      water_level == IF flood_data = None THEN 0 ELSE Get(flood_data, "water_level_m", 50)
      by_water == IF water_level > 150 THEN 1 ELSE 0
      at_4 == IF severity >= 4 THEN Max(by_water, 1) ELSE by_water
      at_5 == IF severity >= 5 THEN Max(at_4, 2) ELSE at_4
      eq_data == TruthySpecific(scen, "earthquake")
      collapse_ratio == IF eq_data = None THEN 0 ELSE Get(eq_data, "building_collapse_ratio", 10)
  IN IF disaster_type \in {"flood", "cyclone"} THEN at_5
     ELSE IF disaster_type = "earthquake" THEN
       IF collapse_ratio > 30 THEN 2 ELSE IF collapse_ratio > 20 THEN 1 ELSE 0
     ELSE 0

\* lines 244-258: boats_needed
BoatsNeeded(scen, severity, num_zones) ==
  LET flood_data == TruthySpecific(scen, "flood")
      water_level == IF flood_data = None THEN 0 ELSE Get(flood_data, "water_level_m", 50)
  IN IF Get(scen, "disaster_type", "flood") \in {"flood", "cyclone"}
       THEN Max(1, severity - 1) * num_zones + (IF water_level > 100 THEN 2 ELSE 0)
     ELSE 0

\* lines 246, 269, 283: trucks_needed
TrucksNeeded(scen, num_zones) ==
  LET disaster_type == Get(scen, "disaster_type", "flood")
  IN IF disaster_type = "earthquake" THEN Max(4, num_zones * 3)
     ELSE IF disaster_type = "heatwave" THEN Max(3, num_zones * 2)
     ELSE Max(2, num_zones * 2)

\* lines 245, 270, 284, 286: drones_needed; the unconditional assignment of
\* line 286 replaces what the branches above have set
DronesNeeded(scen, num_zones) == Max(1, num_zones)

EstimateResources(scen, similar_scenarios, predictor) ==
  LET base_prediction == BasePrediction(predictor)
      severity == Get(scen, "severity_level", Get(scen, "severity", 3))
      population == Get(scen, "population_affected", 10)
      num_zones == Len(Get(scen, "zones_impacted", Get(scen, "zones_affected", << >>)))
      blend(key, rule) ==
        IF base_prediction = None THEN rule
        ELSE Blend(Get(base_prediction, key, rule), rule)
  IN [medical_kits_required |->
        Number(MedicalKitsNeeded(scen, similar_scenarios, base_prediction)),
      food_packets_required  |-> Number(blend("food_packets_required", population * 100)),
      water_liters_required  |-> Number(blend("water_liters_required", population * 3000)),
      shelter_kits_required  |-> Number(blend("shelter_kits_required", population * 10)),
      boats_required         |-> Number(BoatsNeeded(scen, severity, num_zones)),
      drones_required        |-> Number(DronesNeeded(scen, num_zones)),
      trucks_required        |-> Number(TrucksNeeded(scen, num_zones)),
      helicopters_required   |-> Number(HelicoptersNeeded(scen, severity)),
      prediction_method      |->
        Text(IF base_prediction = None THEN "rule_based" ELSE "ml_hybrid")]

(***************************************************************************)
(* agent.py: generate_recommended_actions.  A line is held as its kind and *)
(* the figure it prints.                                                   *)
(***************************************************************************)
Line(kind, figure) == [kind |-> kind, figure |-> figure]

\* lines 500-527: disaster_specific.get(kind, {}) is None when the key is
\* there with no data, and the .get on it raises AttributeError
ActionsRaise(scen) ==
  LET disaster_type == Get(scen, "disaster_type", "flood")
      disaster_specific == Get(scen, "disaster_specific", << >>)
  IN /\ disaster_type \in {"flood", "cyclone", "heatwave", "earthquake"}
     /\ DOMAIN disaster_specific # {}
     /\ Get(disaster_specific, disaster_type, << >>) = None

\* lines 497-527: the disaster-specific lines
SpecificLines(scen) ==
  LET disaster_type == Get(scen, "disaster_type", "flood")
      disaster_specific == Get(scen, "disaster_specific", << >>)
      data == Get(disaster_specific, disaster_type, << >>)
  IN IF DOMAIN disaster_specific = {} THEN << >>
     ELSE IF disaster_type = "flood" THEN
       (IF Get(data, "water_level_m", 0) > 100
          THEN <<Line("flood_critical", Get(data, "water_level_m", 0))>> ELSE << >>)
       \o (IF Get(data, "inland_or_coastal", "") = "coastal"
             THEN <<Line("tidal_surge", 0)>> ELSE << >>)
     ELSE IF disaster_type = "cyclone" THEN
       (IF Get(data, "max_wind_speed_kmph", 0) > 150
          THEN <<Line("wind_severe", Get(data, "max_wind_speed_kmph", 0))>> ELSE << >>)
       \o <<Line("cyclone_track", 0)>>
     ELSE IF disaster_type = "heatwave" THEN
       (IF Get(data, "max_temp_c", 0) > 45
          THEN <<Line("extreme_heat", Get(data, "max_temp_c", 0))>> ELSE << >>)
       \o <<Line("ors", 0)>>
     ELSE IF disaster_type = "earthquake" THEN
       (IF Get(data, "magnitude", 0) > 60
          THEN <<Line("major_earthquake", Get(data, "magnitude", 0))>> ELSE << >>)
       \o <<Line("triage", 0)>>
     ELSE << >>

\* mutant: the convoy line is written before the drone line
VehicleLines_TrucksFirst(scen, estimates) ==
  LET disaster_type == Get(scen, "disaster_type", "flood")
      boats == estimates.boats_required.value
      drones == estimates.drones_required.value
  IN (IF disaster_type \in {"flood", "cyclone"} /\ boats > 0
        THEN <<Line("boats", boats)>> ELSE << >>)
     \o (IF disaster_type = "earthquake"
           THEN <<Line("search_drones", drones), Line("usar", 0)>> ELSE << >>)
     \o <<Line("trucks", estimates.trucks_required.value)>>
     \o (IF drones > 0 /\ disaster_type # "earthquake"
           THEN <<Line("drones", drones)>> ELSE << >>)

\* lines 471-487: the vehicle lines
VehicleLines(scen, estimates) ==
  LET disaster_type == Get(scen, "disaster_type", "flood")
      boats == estimates.boats_required.value
      drones == estimates.drones_required.value
  IN (IF disaster_type \in {"flood", "cyclone"} /\ boats > 0
        THEN <<Line("boats", boats)>> ELSE << >>)
     \o (IF disaster_type = "earthquake"
           THEN <<Line("search_drones", drones), Line("usar", 0)>> ELSE << >>)
     \o (IF drones > 0 /\ disaster_type # "earthquake"
           THEN <<Line("drones", drones)>> ELSE << >>)
     \o <<Line("trucks", estimates.trucks_required.value)>>

GenerateRecommendedActions(scen, estimates, inventory) ==
  LET hospital_load ==
        NormalizeLoad(Get(scen, "hospital_load_pct", Get(scen, "hospital_load", 5000)))
      medical_gap == Get(Get(inventory, "medical_kits", << >>), "gap", 0)
      helicopters == Get(estimates, "helicopters_required", Number(0)).value
      severity == Get(scen, "severity_level", Get(scen, "severity", 3))
  IN (IF medical_gap = 0
        THEN <<Line("medical_deploy", estimates.medical_kits_required.value)>>
        ELSE <<Line("medical_shortage", medical_gap)>>)
     \o VehicleLines(scen, estimates)
     \o (IF Get(scen, "blocked_roads", << >>) # << >>
           THEN <<Line("blocked_roads", Len(scen.blocked_roads))>> ELSE << >>)
     \o (IF hospital_load >= 7000 THEN <<Line("hospital_surge", hospital_load)>> ELSE << >>)
     \o SpecificLines(scen)
     \o (IF helicopters > 0 THEN <<Line("helicopter", helicopters)>> ELSE << >>)
     \o (IF severity >= 3 THEN <<Line("pre_positioning", 0)>> ELSE << >>)

(***************************************************************************)
(* Inputs of estimate_resources and generate_recommended_actions           *)
(***************************************************************************)
\* models.py DisasterSpecificData with no data: every entry None
NoSpecific == [flood |-> None, cyclone |-> None, earthquake |-> None, heatwave |-> None]

\* disaster_specific of a scenario: missing, empty, without data, or with
\* the data of one disaster on each side of the thresholds
SpecificChoices(disaster_type) ==
  LET only(kind, data) == [NoSpecific EXCEPT ![kind] = data]
  IN {None, << >>, NoSpecific}
       \cup (IF disaster_type \in {"flood", "cyclone", "<None>"}
               THEN {only("flood", [water_level_m |-> w, inland_or_coastal |-> "inland"]) :
                       w \in {100, 150, 151}}
                    \cup {only("flood", [water_level_m |-> 101, inland_or_coastal |-> "coastal"]),
                          [flood |-> [rainfall_mm_24h |-> 100]]}
               ELSE {})
       \cup (IF disaster_type = "cyclone"
               THEN {only("cyclone", [max_wind_speed_kmph |-> w]) : w \in {150, 151}}
               ELSE {})
       \cup (IF disaster_type = "earthquake"
               THEN {only("earthquake", [building_collapse_ratio |-> c, magnitude |-> m]) :
                       c \in {20, 21, 30, 31}, m \in {60}}
                    \cup {only("earthquake", [magnitude |-> 61])}
               ELSE {})
       \cup (IF disaster_type = "heatwave"
               THEN {only("heatwave", [max_temp_c |-> t]) : t \in {45, 46}}
               ELSE {})

AllZones == <<"North", "South", "East", "West", "Central">>

\* a scenario dict as run_from_input builds it; disaster_type "<None>" and
\* disaster_specific None stand for a dict without the key
ScenarioWith(disaster_type, severity, num_zones, hospital, blocked, specific) ==
  LET base == [severity_level |-> severity, population_affected |-> 20,
               zones_impacted |-> SubSeq(AllZones, 1, num_zones),
               hospital_load_pct |-> hospital, blocked_roads |-> blocked]
      typed == IF disaster_type = "<None>" THEN base
               ELSE [k \in DOMAIN base \cup {"disaster_type"} |->
                       IF k = "disaster_type" THEN disaster_type ELSE base[k]]
  IN IF specific = None THEN typed
     ELSE [k \in DOMAIN typed \cup {"disaster_specific"} |->
             IF k = "disaster_specific" THEN specific ELSE typed[k]]

EstimateScenarioChoices ==
  UNION {{ScenarioWith(t, s, n, h, b, sp) :
            s \in 1..5, n \in 0..MaxZones, h \in {6500, 7000},
            b \in {<< >>, <<"OMR", "ECR">>}, sp \in SpecificChoices(t)} :
         t \in {"flood", "cyclone", "earthquake", "heatwave", "landslide", "<None>"}}
    \cup {[disaster_type |-> "earthquake", severity |-> 2, hospital_load |-> 95,
           zones_affected |-> <<"North", "South">>]}

PredictorChoices ==
  {NotLoaded, Raises, Prediction(300, 2100, 65000, 150),
   Prediction(40000, 0, 0, 0)}

\* the value find_similar_scenarios hands over
SimilarChoices ==
  {<< >>,
   <<[scenario |-> [id |-> "untyped"], distance |-> 300]>>,
   <<[scenario |-> CHENNAI_SCENARIOS[1], distance |-> 120],
     [scenario |-> CHENNAI_SCENARIOS[4], distance |-> 250],
     [scenario |-> [id |-> "untyped"], distance |-> 300]>>}

(***************************************************************************)
(* Actions: estimate_resources, generate_recommended_actions               *)
(***************************************************************************)
estimate_resources ==
  /\ epc = "idle"
  /\ \E scen \in EstimateScenarioChoices, sim \in SimilarChoices,
        p \in PredictorChoices :
       /\ est_scenario' = scen
       /\ est_similar' = sim
       /\ demand_model' = p
       /\ resource_estimates' = EstimateResources(scen, sim, p)
  /\ epc' = "estimated"
  /\ UNCHANGED <<actions_inventory, recommended_actions>>
  /\ UNCHANGED <<routing_vars, assess_vars, similar_vars, decision_vars>>

generate_recommended_actions ==
  /\ epc = "estimated"
  /\ \E avail \in {<< >>, [DefaultAvailable EXCEPT !.medical_kits_available = 30000]} :
       LET inventory == CheckInventory(DEPOT_INVENTORY, resource_estimates, avail)
       IN /\ actions_inventory' = inventory
          /\ IF ActionsRaise(est_scenario)
               THEN /\ recommended_actions' = << >>
                    /\ epc' = "raised"
               ELSE /\ recommended_actions' =
                         GenerateRecommendedActions(est_scenario, resource_estimates, inventory)
                    /\ epc' = "advised"
  /\ UNCHANGED <<est_scenario, est_similar, demand_model, resource_estimates>>
  /\ UNCHANGED <<routing_vars, assess_vars, similar_vars, decision_vars>>

EstimateInit ==
  /\ epc = "idle"
  /\ est_scenario = << >>
  /\ est_similar = << >>
  /\ demand_model = NotLoaded
  /\ resource_estimates = << >>
  /\ actions_inventory = << >>
  /\ recommended_actions = << >>

EstimateNext == estimate_resources \/ generate_recommended_actions

(***************************************************************************)
(* Claims about estimate_resources                                         *)
(***************************************************************************)
EstimatedType == Get(est_scenario, "disaster_type", "flood")

EstimatedSeverity ==
  Get(est_scenario, "severity_level", Get(est_scenario, "severity", 3))

EstimatedZoneCount ==
  Len(Get(est_scenario, "zones_impacted", Get(est_scenario, "zones_affected", << >>)))

\* the water level the scenario gives for its flood, in cm; -1 when it
\* gives none
EstimatedWaterLevel ==
  LET disaster_specific == Get(est_scenario, "disaster_specific", << >>)
      flood == IF DOMAIN disaster_specific = {} THEN None
               ELSE Get(disaster_specific, "flood", None)
  IN IF flood = None THEN -1 ELSE Get(flood, "water_level_m", -1)

\* C11: a flood scenario whose water level is above 1.5 m is estimated to
\* need at least one helicopter, whatever its severity and its zones
C11_DeepFloodGetsHelicopter ==
  (epc # "idle" /\ EstimatedType = "flood" /\ EstimatedWaterLevel > 150)
    => resource_estimates.helicopters_required.value >= 1

\* a deep flood of low severity with no zone: the helicopter comes from the
\* water level alone
C11_Witness ==
  /\ epc # "idle"
  /\ EstimatedType = "flood"
  /\ EstimatedWaterLevel > 150
  /\ EstimatedSeverity <= 3
  /\ EstimatedZoneCount = 0
  /\ resource_estimates.helicopters_required.value = 1

\* C12: an earthquake is estimated to need max(2, 2 * zones) drones and
\* max(4, 3 * zones) trucks
C12_EarthquakeVehicles ==
  (epc # "idle" /\ EstimatedType = "earthquake")
    => /\ resource_estimates.drones_required.value = Max(2, 2 * EstimatedZoneCount)
       /\ resource_estimates.trucks_required.value = Max(4, 3 * EstimatedZoneCount)


\* C13: when the predictor is loaded and predict raises, the call returns
\* the rule-based estimate, tagged rule_based; the tag ml_hybrid is given
\* only when a prediction was obtained and blended into the supply figures
C13_FailedPredictionIsRuleBased ==
  epc # "idle" =>
    LET population == Get(est_scenario, "population_affected", 10)
        method == resource_estimates.prediction_method.text
    IN /\ demand_model = Raises =>
            /\ resource_estimates = EstimateResources(est_scenario, est_similar, NotLoaded)
            /\ method = "rule_based"
            /\ resource_estimates.food_packets_required.value = population * 100
            /\ resource_estimates.water_liters_required.value = population * 3000
            /\ resource_estimates.shelter_kits_required.value = population * 10
       /\ method = "ml_hybrid" =>
            /\ demand_model.kind = "prediction"
            /\ resource_estimates.food_packets_required.value =
                 Blend(demand_model.value.food_packets_required, population * 100)
            /\ resource_estimates.water_liters_required.value =
                 Blend(demand_model.value.water_liters_required, population * 3000)
            /\ resource_estimates.shelter_kits_required.value =
                 Blend(demand_model.value.shelter_kits_required, population * 10)
       /\ method \in {"rule_based", "ml_hybrid"}

\* predict raised on a scenario that has similar scenarios with kits deployed
C13_Witness ==
  /\ epc # "idle"
  /\ demand_model = Raises
  /\ est_similar # << >>
  /\ resource_estimates.prediction_method.text = "rule_based"
  /\ resource_estimates.food_packets_required.value = 2000

\* the rule value of the estimated scenario:
\* max(100, int(population * 0.10 * (hospital_load / 0.5)) // 10)
EstimatedRuleKits ==
  LET population == Get(est_scenario, "population_affected", 10)
      raw == Get(est_scenario, "hospital_load_pct", Get(est_scenario, "hospital_load", 5000))
      load == IF raw > 100 THEN raw ELSE 100 * raw
  IN Max(100, ((population * load) \div 50) \div 10)

\* the medical kits deployed in the similar matches, added up
EstimatedHistoricalKits ==
  LET deployed(i) ==
        IF "resources_deployed" \in DOMAIN est_similar[i].scenario
             /\ "medical_kits" \in DOMAIN est_similar[i].scenario.resources_deployed
          THEN est_similar[i].scenario.resources_deployed.medical_kits ELSE 0
      RECURSIVE Sum(_)
      Sum(i) == IF i = 0 THEN 0 ELSE Sum(i - 1) + deployed(i)
  IN Sum(Len(est_similar))

\* C24: the ML blend comes before the historical blend.  With r the rule
\* value, m the predictor's value and a the mean of the kits deployed in the
\* matches, medical_kits is trunc((trunc(0.7 m + 0.3 r) + a) / 2) when a > 0
\* and a prediction exists, trunc((r + a) / 2) when a > 0 and none exists,
\* and the value before the historical step when a = 0 or nothing matched
C24_MlBlendBeforeHistory ==
  epc # "idle" =>
    LET r == EstimatedRuleKits
        n == Len(est_similar)
        total == EstimatedHistoricalKits
        predicted == demand_model.kind = "prediction"
        with_ml == IF predicted
                     THEN (7 * demand_model.value.medical_kits_required + 3 * r) \div 10
                   ELSE r
        kits == resource_estimates.medical_kits_required.value
    IN IF n > 0 /\ total > 0
         THEN kits = (with_ml * n + total) \div (2 * n)
       ELSE kits = with_ml

\* a prediction and matches with kits deployed, on a scenario where blending
\* the history first would have given another figure; the rule value is
\* not the floor of 100
C24_Witness ==
  /\ epc # "idle"
  /\ demand_model.kind = "prediction"
  /\ EstimatedHistoricalKits > 0
  /\ EstimatedRuleKits > 100
  /\ resource_estimates.medical_kits_required.value #
       MedicalKitsNeeded_HistoryFirst(est_scenario, est_similar, BasePrediction(demand_model))

(***************************************************************************)
(* Claims about generate_recommended_actions                               *)
(***************************************************************************)
\* the place of a line in the fixed order of the recommendations
LineRank(kind) ==
  CASE kind \in {"medical_deploy", "medical_shortage"} -> 1
    [] kind = "boats" -> 2
    [] kind = "search_drones" -> 3
    [] kind = "usar" -> 4
    [] kind = "drones" -> 5
    [] kind = "trucks" -> 6
    [] kind = "blocked_roads" -> 7
    [] kind = "hospital_surge" -> 8
    [] kind \in {"flood_critical", "wind_severe", "extreme_heat", "major_earthquake"} -> 9
    [] kind \in {"tidal_surge", "cyclone_track", "ors", "triage"} -> 10
    [] kind = "helicopter" -> 11
    [] kind = "pre_positioning" -> 12
    [] OTHER -> 0

\* C18: the recommendations come in the fixed order medical, boats,
\* earthquake search lines, drones, convoy, blocked roads, hospital surge,
\* disaster-specific escalation, helicopter, pre-positioning; the medical
\* line is the first one (deployment when the medical gap is 0, shortage
\* otherwise), the convoy line is there exactly once, and an earthquake
\* gets no drone-delivery line
C18_ActionsInFixedOrder ==
  epc = "advised" =>
    LET n == Len(recommended_actions)
        rank(i) == LineRank(recommended_actions[i].kind)
        medical_gap == Get(Get(actions_inventory, "medical_kits", << >>), "gap", 0)
    IN /\ n >= 2
       /\ \A i \in 1..n : rank(i) > 0
       /\ \A i \in 1..(n - 1) : rank(i) < rank(i + 1)
       /\ recommended_actions[1] =
            (IF medical_gap = 0
               THEN Line("medical_deploy", resource_estimates.medical_kits_required.value)
               ELSE Line("medical_shortage", medical_gap))
       /\ Cardinality({i \in 1..n : recommended_actions[i].kind = "trucks"}) = 1
       /\ EstimatedType = "earthquake" =>
            \A i \in 1..n : recommended_actions[i].kind # "drones"

\* a coastal flood short of medical kits that gets every line a flood can get
C18_Witness ==
  /\ epc = "advised"
  /\ EstimatedType = "flood"
  /\ Len(recommended_actions) = 10
  /\ recommended_actions[1].kind = "medical_shortage"
  /\ recommended_actions[3].kind = "drones"
  /\ recommended_actions[4].kind = "trucks"

(***************************************************************************)
(* agent.py: _process_scenario.  The routing call of step 4 as a value:    *)
(* the while loop of a_star_route and the for loop of find_routes_to_zones *)
(* run to their end.                                                       *)
(***************************************************************************)
\* routing.py lines 90-131: the while loop from the given heap on
RECURSIVE AStarSearch(_, _, _, _, _, _)
AStarSearch(heap, closed, gs, goal_id, blocked, mode) ==
  IF heap = {} THEN None
  ELSE
    LET entry == HeapMin(heap)
        rest  == heap \ {entry}
    IN IF entry.node = goal_id THEN RouteOf(entry)
       ELSE IF entry.node \in closed
         THEN AStarSearch(rest, closed, gs, goal_id, blocked, mode)
       ELSE LET now_closed == closed \cup {entry.node}
                after == Relax(build_graph(blocked)[entry.node], 1, entry,
                               now_closed, gs, rest, goal_id, mode)
            IN AStarSearch(after.open_set, now_closed, after.g_scores,
                           goal_id, blocked, mode)

\* routing.py lines 55-131
AStarRoute(s, g, blocked, mode) ==
  IF s \notin ROAD_NETWORK.nodes \/ g \notin ROAD_NETWORK.nodes THEN None
  ELSE AStarSearch({[f |-> heuristic(s, g, mode), node |-> s,
                     path |-> <<s>>, cost |-> 0, roads |-> <<>>]},
                   {}, [n \in {s} |-> 0], g, blocked, mode)

\* routing.py lines 133-144: routes after the first i zones
RECURSIVE FindRoutesToZones(_, _, _, _)
FindRoutesToZones(s, zone_list, blocked, i) ==
  IF i = 0 THEN << >>
  ELSE LET done == FindRoutesToZones(s, zone_list, blocked, i - 1)
           zone == zone_list[i]
       IN [z \in DOMAIN done \cup {zone} |->
             IF z = zone THEN AStarRoute(s, ZoneNode(zone), blocked, "time")
             ELSE done[z]]

\* agent.py lines 615-625: the entries of selected_routes, in the order of
\* the keys of routes (a dict keeps the order of first insertion)
RECURSIVE SelectedRoutes(_, _, _)
SelectedRoutes(found, zone_list, i) ==
  IF i = 0 THEN << >>
  ELSE LET before == SelectedRoutes(found, zone_list, i - 1)
           zone == zone_list[i]
       IN IF zone \in {zone_list[j] : j \in 1..(i - 1)} \/ found[zone] = None
            THEN before
          ELSE Append(before,
                      [zone        |-> zone,
                       path        |-> found[zone].path,
                       distance_km |-> found[zone].total_distance_km,
                       time_min    |-> found[zone].total_time_min,
                       roads       |-> found[zone].roads_used])

\* find_similar_scenarios (step 1), generate_weather_snapshot (step 5) and
\* generate_recommended_actions (step 7) raise AttributeError on a
\* disaster_specific that holds None for the scenario's own disaster
ProcessRaises(historical, scen) ==
  LET same_type == SameType(historical, scen)
  IN \/ \E i \in 1..Len(same_type) : SimilarityRaises(scen, same_type[i])
     \/ ActionsRaise(scen)

\* lines 572-710: the DecisionResponse built from the scenario; the
\* timestamp, the summary text, the (random) weather snapshot, the coverage
\* and the interpretability data are left out
ProcessScenario(historical, scen, predictor, classifier, decision_id) ==
  LET similar_found == FindSimilar(historical, scen, 3)
      estimates == EstimateResources(scen, similar_found, predictor)
      inventory == CheckInventory(DEPOT_INVENTORY, estimates,
                                  Get(scen, "available_resources", << >>))
      zone_list == Get(scen, "zones_impacted", Get(scen, "zones_affected", << >>))
      blocked == Get(scen, "blocked_roads", << >>)
      found == FindRoutesToZones(Depot, zone_list,
                                 {blocked[i] : i \in 1..Len(blocked)}, Len(zone_list))
  IN [id                  |-> decision_id,
      risk_level          |-> DetermineRiskLevel(scen, inventory, classifier),
      selected_routes     |-> SelectedRoutes(found, zone_list, Len(zone_list)),
      recommended_actions |-> GenerateRecommendedActions(scen, estimates, inventory),
      similar_scenarios   |-> [i \in 1..Len(similar_found) |-> similar_found[i].scenario.id],
      supply_gap          |-> Get(Get(inventory, "medical_kits", << >>), "gap", 0),
      prediction_method   |-> estimates.prediction_method.text,
      status              |-> "pending"]

(***************************************************************************)
(* agent.py: update_learning_weights                                       *)
(***************************************************************************)
\* lines 23-27
InitialWeights == [medical |-> 10000, evacuation |-> 10000, infrastructure |-> 10000]

\* w * percent / 100 and w / (total / 3), rounded to the nearest 1/10000
Scaled(w, percent) == (w * percent + 50) \div 100

Normalized(w, total) == (2 * 30000 * w + total) \div (2 * total)

WeightSum(weights) == weights.medical + weights.evacuation + weights.infrastructure

\* mutant: the weights are not normalised
UpdateLearningWeights_NoNormalize(weights, feedback) ==
  [key \in DOMAIN weights |->
     IF feedback = "approved" THEN Scaled(weights[key], 101)
     ELSE IF feedback = "aborted" THEN Scaled(weights[key], 98)
     ELSE weights[key]]

\* mutant: the feedback scales the medical weight only
UpdateLearningWeights_MedicalOnly(weights, feedback) ==
  LET adjusted == [key \in DOMAIN weights |->
                     IF key # "medical" THEN weights[key]
                     ELSE IF feedback = "approved" THEN Scaled(weights[key], 101)
                     ELSE IF feedback = "aborted" THEN Scaled(weights[key], 98)
                     ELSE weights[key]]
      total == WeightSum(adjusted)
  IN [key \in DOMAIN weights |-> Normalized(adjusted[key], total)]

\* lines 730-744
UpdateLearningWeights(weights, feedback) ==
  LET adjusted == [key \in DOMAIN weights |->
                     IF feedback = "approved" THEN Scaled(weights[key], 101)
                     ELSE IF feedback = "aborted" THEN Scaled(weights[key], 98)
                     ELSE weights[key]]
      total == WeightSum(adjusted)
  IN [key \in DOMAIN weights |-> Normalized(adjusted[key], total)]

(***************************************************************************)
(* Inputs of run_agent and decision_action                                 *)
(***************************************************************************)
MaxRuns == 2

MaxFeedback == 2

\* the scenario dict run_from_input builds (lines 543-555), without the
\* texts city, severity_label and notes
PipelineScenario(disaster_type, severity, zone_list, hospital, blocked, specific) ==
  [disaster_type       |-> disaster_type,
   severity_level      |-> severity,
   population_affected |-> 20,
   zones_impacted      |-> zone_list,
   hospital_load_pct   |-> hospital,
   blocked_roads       |-> blocked,
   available_resources |-> DefaultAvailable,
   disaster_specific   |-> specific]

\* every road that reaches Zone_East
EastCutOff == <<"ECR", "Marina", "Inner_Ring">>

\* the runs: a scenario, what the demand model and what the risk classifier
\* do in the run (one flag, ml_models_loaded, switches both on).  Zones
\* that are reachable, cut off, not nodes of the network, or given twice;
\* disaster_specific with data, empty, or holding no data for the
\* scenario's own disaster
RunChoices ==
  {<<PipelineScenario("flood", 4, <<"North", "South">>, 8200, << >>,
                      [NoSpecific EXCEPT !.flood =
                         [water_level_m |-> 151, inland_or_coastal |-> "coastal"]]),
     NotLoaded, ClassifierOff>>,
   <<PipelineScenario("flood", 2, <<"East", "Harbour", "West", "East">>, 4000, << >>, << >>),
     Raises, ClassifierRaises>>,
   <<PipelineScenario("flood", 2, <<"East", "Central">>, 4000, EastCutOff, << >>),
     Prediction(40000, 0, 0, 0), Label("CRITICAL")>>,
   <<PipelineScenario("flood", 3, <<"Harbour">>, 6500, EastCutOff, << >>),
     NotLoaded, ClassifierOff>>,
   <<PipelineScenario("flood", 3, <<"West">>, 6500, << >>, NoSpecific),
     NotLoaded, ClassifierOff>>,
   <<PipelineScenario("earthquake", 3, <<"East">>, 6500, EastCutOff, NoSpecific),
     NotLoaded, ClassifierOff>>}

\* agent.historical_scenarios: no scenario file is shipped
HistoricalShipped == CHENNAI_SCENARIOS

\* what each run does: raise, or build this decision (the id is drawn when
\* the run is made)
RunOutcomes ==
  [run \in RunChoices |->
     IF ProcessRaises(HistoricalShipped, run[1]) THEN [raised |-> TRUE]
     ELSE [raised   |-> FALSE,
           decision |-> ProcessScenario(HistoricalShipped, run[1], run[2], run[3], 0)]]

\* the action of a request: the three the handler knows and one it does not
ActionChoices == {"approve", "abort", "modify", "escalate"}

\* the feedback of a direct update_learning_weights call: the two strings
\* the method knows and one it does not
FeedbackChoices == {"approved", "aborted", "rejected"}

(***************************************************************************)
(* main.py: run_agent and decision_action                                  *)
(***************************************************************************)
\* mutant: the new decision is put in front of the history
Appended_AtFront(history, decision_id) == <<decision_id>> \o history

\* mutant: the append is made on the list as it was when the agent started,
\* and the result is written back (a lost update)
Appended_OnStaleList(history, decision_id) == <<decision_id>>

\* agent.py line 712: decisions_history.append(decision)
Appended(history, decision_id) == Append(history, decision_id)

\* mutant: a modify is reported to the agent as well
FeedbackFor_ModifyToo(action) ==
  IF action = "approve" THEN "approved"
  ELSE IF action = "abort" THEN "aborted"
  ELSE IF action = "modify" THEN "modified"
  ELSE NoType

\* main.py lines 383-393: the feedback handed to update_learning_weights,
\* NoType when the branch makes no call
FeedbackFor(action) ==
  IF action = "approve" THEN "approved"
  ELSE IF action = "abort" THEN "aborted"
  ELSE NoType

\* mutant: an action the handler does not know puts the decision back to
\* pending
StatusAfter_UnknownResets(status, action) ==
  IF action = "approve" THEN "approved"
  ELSE IF action = "abort" THEN "aborted"
  ELSE IF action = "modify" THEN "modified"
  ELSE "pending"

\* main.py lines 383-393: decision.status after the branches
StatusAfter(status, action) ==
  IF action = "approve" THEN "approved"
  ELSE IF action = "abort" THEN "aborted"
  ELSE IF action = "modify" THEN "modified"
  ELSE status

\* main.py lines 57-68: add_activity_log; an entry is held as its event type
\* and what its description says, the id and the timestamp are left out
AddActivityLog(logs, event_type, description) ==
  LET inserted == <<[event_type |-> event_type, description |-> description]>> \o logs
  IN IF Len(inserted) > 100 THEN SubSeq(inserted, 1, Len(inserted) - 1) ELSE inserted

\* main.py lines 155-156: the log after initialize_sample_data
InitialLogs ==
  AddActivityLog(AddActivityLog(<< >>, "system", [text |-> "initialized"]),
                 "alert", [text |-> "flood_warning"])

\* the entries of the log whose description is one of the given texts
Logged(logs, texts) ==
  Cardinality({i \in 1..Len(logs) : logs[i].description.text \in texts})

\* main.py lines 383-393: the log after the branches
ActionLogged(logs, action, decision_id) ==
  IF action = "approve"
    THEN AddActivityLog(logs, "decision", [text |-> "approved", decision_id |-> decision_id])
  ELSE IF action = "abort"
    THEN AddActivityLog(logs, "override", [text |-> "aborted", decision_id |-> decision_id])
  ELSE IF action = "modify"
    THEN AddActivityLog(logs, "decision", [text |-> "modified", decision_id |-> decision_id])
  ELSE logs

\* mutant: the new decision is put at the end of the API list
Inserted_AtEnd(list, decision_id) == Append(list, decision_id)

\* main.py line 308: active_decisions.insert(0, decision)
Inserted(list, decision_id) == <<decision_id>> \o list

\* main.py lines 289-370 with agent.py run_from_input and _process_scenario;
\* str(uuid.uuid4())[:8] is taken to be an id not drawn before
run_agent ==
  /\ runs_completed < MaxRuns
  /\ Logged(activity_logs, {"submitted"}) < MaxRuns
  /\ \E run \in RunChoices :
       LET outcome == RunOutcomes[run]
           decision_id == Len(decisions_history) + 1
           submitted == AddActivityLog(activity_logs, "scenario",
                                       [text |-> "submitted",
                                        disaster_type |-> run[1].disaster_type])
       IN IF outcome.raised
            THEN /\ last_call' = [handler |-> "run_agent", scenario |-> run[1],
                                  outcome |-> "raised"]
                 /\ activity_logs' = submitted
                 /\ UNCHANGED <<decisions, decisions_history, active_decisions,
                                runs_completed>>
          ELSE /\ decisions' =
                    [d \in DOMAIN decisions \cup {decision_id} |->
                       IF d = decision_id
                         THEN [outcome.decision EXCEPT !.id = decision_id]
                         ELSE decisions[d]]
               /\ decisions_history' = Appended(decisions_history, decision_id)
               /\ active_decisions' = Inserted(active_decisions, decision_id)
               /\ activity_logs' =
                    AddActivityLog(submitted, "decision",
                                   [text |-> "generated",
                                    risk_level |-> outcome.decision.risk_level,
                                    decision_id |-> decision_id])
               /\ runs_completed' = runs_completed + 1
               /\ last_call' = [handler |-> "run_agent", scenario |-> run[1],
                                outcome |-> "completed"]
  /\ UNCHANGED <<learning_weights, feedback_log>>
  /\ UNCHANGED <<routing_vars, assess_vars, similar_vars, estimate_vars>>

\* mutant: an id that is not in the list gives the newest decision
FindDecision_NewestIfMissing(list, decision_id) ==
  IF \E i \in 1..Len(list) : list[i] = decision_id
    THEN [kind |-> "decision", id |-> decision_id]
  ELSE IF list # << >> THEN [kind |-> "decision", id |-> list[1]]
  ELSE None

\* main.py line 379: next((d for d in active_decisions if d.id == decision_id), None)
FindDecision(list, decision_id) ==
  IF \E i \in 1..Len(list) : list[i] = decision_id
    THEN [kind |-> "decision", id |-> decision_id]
  ELSE None

\* main.py lines 376-395 with agent.py update_learning_weights
decision_action ==
  /\ Len(feedback_log) < MaxFeedback
  /\ Logged(activity_logs, {"approved", "aborted", "modified"}) < MaxFeedback
  /\ \E decision_id \in 1..(Len(decisions_history) + 1), action \in ActionChoices :
       LET decision == FindDecision(active_decisions, decision_id)
       IN IF decision = None
            THEN /\ last_call' = [handler |-> "decision_action", decision_id |-> decision_id,
                                  action |-> action, outcome |-> "not_found"]
                 /\ UNCHANGED <<decisions, learning_weights, feedback_log, activity_logs>>
          ELSE LET feedback == FeedbackFor(action)
               IN /\ decisions' =
                       [decisions EXCEPT ![decision.id].status =
                          StatusAfter(decisions[decision.id].status, action)]
                  /\ activity_logs' = ActionLogged(activity_logs, action, decision_id)
                  /\ IF feedback = NoType
                       THEN UNCHANGED <<learning_weights, feedback_log>>
                       ELSE /\ learning_weights' =
                                 UpdateLearningWeights(learning_weights, feedback)
                            /\ feedback_log' =
                                 Append(feedback_log,
                                        [decision_id |-> decision.id, feedback |-> feedback])
                  /\ last_call' = [handler |-> "decision_action", decision_id |-> decision_id,
                                   action |-> action, outcome |-> "done",
                                   new_status |-> decisions'[decision.id].status]
  /\ UNCHANGED <<decisions_history, active_decisions, runs_completed>>
  /\ UNCHANGED <<routing_vars, assess_vars, similar_vars, estimate_vars>>

\* agent.py lines 730-744: a call of the method by another client of the
\* agent, on a decision of the history and with any feedback string
update_learning_weights ==
  /\ Len(feedback_log) < MaxFeedback
  /\ \E decision_id \in DOMAIN decisions, feedback \in FeedbackChoices :
       /\ learning_weights' = UpdateLearningWeights(learning_weights, feedback)
       /\ feedback_log' =
            Append(feedback_log, [decision_id |-> decision_id, feedback |-> feedback])
       /\ last_call' = [handler |-> "update_learning_weights",
                        decision_id |-> decision_id, feedback |-> feedback,
                        outcome |-> "done"]
  /\ UNCHANGED <<decisions, decisions_history, active_decisions, activity_logs,
                 runs_completed>>
  /\ UNCHANGED <<routing_vars, assess_vars, similar_vars, estimate_vars>>

DecisionInit ==
  /\ decisions = << >>
  /\ decisions_history = << >>
  /\ active_decisions = << >>
  /\ learning_weights = InitialWeights
  /\ feedback_log = << >>
  /\ activity_logs = InitialLogs
  /\ runs_completed = 0
  /\ last_call = [handler |-> "none", outcome |-> "none"]

DecisionNext == run_agent \/ decision_action

\* the agent used without the API: runs and direct feedback calls
WeightsNext == run_agent \/ update_learning_weights

(***************************************************************************)
(* Claims about the decisions and the learning weights                     *)
(***************************************************************************)
\* C14: after any sequence of update_learning_weights calls with approved
\* or aborted from the weights (1.0, 1.0, 1.0), the three weights sum to
\* 3.0, within one unit of the last digit kept
C14_WeightsSumToThree ==
  /\ DOMAIN learning_weights = DOMAIN InitialWeights
  /\ Abs(WeightSum(learning_weights) - 30000) <= 1

\* approvals and aborts have both been fed back
C14_Witness ==
  /\ Len(feedback_log) >= 2
  /\ \E i, j \in 1..Len(feedback_log) :
       /\ feedback_log[i].feedback = "approved"
       /\ feedback_log[j].feedback = "aborted"
  /\ WeightSum(learning_weights) = 30000

\* C15: the status of a decision changes once, from pending to approved,
\* aborted or modified; a decision that is not pending keeps its status
C15_StatusSetOnce ==
  [][\A d \in DOMAIN decisions :
       /\ decisions'[d].status # decisions[d].status
            => decisions'[d].status \in {"approved", "aborted", "modified"}
       /\ decisions[d].status # "pending"
            => decisions'[d].status = decisions[d].status]_decision_vars

\* C16: a completed run appends one new pending decision at the end of the
\* history; no step removes, replaces or reorders an entry or changes
\* anything but the status of a decision made before; the history is as
\* long as the number of completed runs
C16_HistoryAppendOnly ==
  /\ [](/\ Len(decisions_history) = runs_completed
        /\ DOMAIN decisions = {decisions_history[i] : i \in 1..Len(decisions_history)}
        /\ \A i, j \in 1..Len(decisions_history) :
             decisions_history[i] = decisions_history[j] => i = j)
  /\ [][/\ Len(decisions_history') >= Len(decisions_history)
        /\ SubSeq(decisions_history', 1, Len(decisions_history)) = decisions_history
        /\ \A d \in DOMAIN decisions :
             /\ d \in DOMAIN decisions'
             /\ [decisions'[d] EXCEPT !.status = "pending"]
                  = [decisions[d] EXCEPT !.status = "pending"]
        /\ IF last_call'.handler = "run_agent" /\ last_call'.outcome = "completed"
                /\ runs_completed' # runs_completed
             THEN /\ runs_completed' = runs_completed + 1
                  /\ Len(decisions_history') = Len(decisions_history) + 1
                  /\ decisions_history'[Len(decisions_history')] \notin DOMAIN decisions
                  /\ decisions'[decisions_history'[Len(decisions_history')]].status = "pending"
             ELSE /\ decisions_history' = decisions_history
                  /\ runs_completed' = runs_completed]_decision_vars

\* two runs were completed, the first decision was acted on before the
\* second run
C16_Witness ==
  /\ Len(decisions_history) = 2
  /\ runs_completed = 2
  /\ decisions[decisions_history[1]].status = "aborted"
  /\ decisions[decisions_history[2]].status = "pending"
  /\ last_call.handler = "run_agent"
  /\ last_call.outcome = "completed"

\* C17: an approve or abort of an existing decision makes one
\* update_learning_weights call, with approved or aborted; a modify changes
\* the status of that decision and nothing else: not the weights, not the
\* other decisions, and no call is made
C17_FeedbackChannel ==
  [][(last_call'.handler = "decision_action" /\ last_call'.outcome = "done") =>
       LET d == last_call'.decision_id
           action == last_call'.action
           call(feedback) == [decision_id |-> d, feedback |-> feedback]
       IN /\ action = "approve" =>
               /\ feedback_log' = Append(feedback_log, call("approved"))
               /\ learning_weights' = UpdateLearningWeights(learning_weights, "approved")
          /\ action = "abort" =>
               /\ feedback_log' = Append(feedback_log, call("aborted"))
               /\ learning_weights' = UpdateLearningWeights(learning_weights, "aborted")
          /\ action = "modify" =>
               /\ feedback_log' = feedback_log
               /\ learning_weights' = learning_weights
               /\ decisions' = [decisions EXCEPT ![d].status = "modified"]
               /\ decisions_history' = decisions_history
               /\ active_decisions' = active_decisions]_decision_vars

\* the second decision was modified after the first one was approved
C17_Witness ==
  /\ last_call.handler = "decision_action"
  /\ last_call.outcome = "done"
  /\ last_call.action = "modify"
  /\ last_call.decision_id = 2
  /\ decisions[2].status = "modified"
  /\ decisions[1].status = "approved"
  /\ feedback_log = <<[decision_id |-> 1, feedback |-> "approved"]>>

\* the zones of the scenario that have a path from the depot
ReachableZones(scen) ==
  LET zone_list == Get(scen, "zones_impacted", Get(scen, "zones_affected", << >>))
      blocked == Get(scen, "blocked_roads", << >>)
  IN {zone_list[i] : i \in
        {j \in 1..Len(zone_list) :
           /\ ZoneNode(zone_list[j]) \in ROAD_NETWORK.nodes
           /\ PathExists(Depot, ZoneNode(zone_list[j]),
                         {blocked[k] : k \in 1..Len(blocked)})}}

\* C19: every run completes and returns a decision whose selected_routes
\* holds one route for each distinct zone of the scenario that has a path
\* from Central_Depot, and none for the other zones
C19_EveryRunCompletes ==
  last_call.handler = "run_agent" =>
    /\ last_call.outcome = "completed"
    /\ LET selected_routes == decisions[active_decisions[1]].selected_routes
       IN /\ {selected_routes[i].zone : i \in 1..Len(selected_routes)}
               = ReachableZones(last_call.scenario)
          /\ Len(selected_routes) = Cardinality(ReachableZones(last_call.scenario))

\* C21: a decision_action on an id that no decision has is answered with
\* not found, and the step changes no decision, not the learning weights,
\* not the two decision lists and not the activity log
C21_UnknownIdChangesNothing ==
  [][(/\ last_call'.handler = "decision_action"
      /\ last_call' # last_call
      /\ last_call'.decision_id \notin DOMAIN decisions) =>
       /\ last_call'.outcome = "not_found"
       /\ decisions' = decisions
       /\ learning_weights' = learning_weights
       /\ feedback_log' = feedback_log
       /\ decisions_history' = decisions_history
       /\ active_decisions' = active_decisions
       /\ activity_logs' = activity_logs]_decision_vars

\* an approve on an unknown id, after a decision was made and aborted
C21_Witness ==
  /\ last_call.handler = "decision_action"
  /\ last_call.outcome = "not_found"
  /\ last_call.action = "approve"
  /\ last_call.decision_id \notin DOMAIN decisions
  /\ \E d \in DOMAIN decisions : decisions[d].status = "aborted"
  /\ activity_logs[1].description.text = "aborted"

\* C30: a decision_action on an existing decision with an action other than
\* approve, abort and modify changes no status, not the learning weights and
\* not the activity log, and answers with the status the decision had
C30_UnknownActionChangesNothing ==
  [][(/\ last_call'.handler = "decision_action"
      /\ last_call' # last_call
      /\ last_call'.decision_id \in DOMAIN decisions
      /\ last_call'.action \notin {"approve", "abort", "modify"}) =>
       /\ last_call'.outcome = "done"
       /\ last_call'.new_status = decisions[last_call'.decision_id].status
       /\ decisions' = decisions
       /\ learning_weights' = learning_weights
       /\ feedback_log' = feedback_log
       /\ activity_logs' = activity_logs]_decision_vars

\* an escalate on a decision that was approved before
C30_Witness ==
  /\ last_call.handler = "decision_action"
  /\ last_call.outcome = "done"
  /\ last_call.action = "escalate"
  /\ last_call.new_status = "approved"
  /\ decisions[last_call.decision_id].status = "approved"
  /\ activity_logs[1].description.text = "approved"

\* C29: after any sequence of run_agent and decision_action requests the
\* API list active_decisions holds the decisions of agent.decisions_history,
\* the same objects, in the reverse order: newest first against oldest first
C29_ListsMirror ==
  /\ Len(active_decisions) = Len(decisions_history)
  /\ \A i \in 1..Len(active_decisions) :
       active_decisions[i] = decisions_history[Len(decisions_history) + 1 - i]
  /\ {active_decisions[i] : i \in 1..Len(active_decisions)} = DOMAIN decisions

\* two decisions were made, then the older one was approved through the
\* API list
C29_Witness ==
  /\ Len(decisions_history) = 2
  /\ active_decisions[1] = decisions_history[2]
  /\ active_decisions[2] = decisions_history[1]
  /\ active_decisions[1] # active_decisions[2]
  /\ last_call.handler = "decision_action"
  /\ last_call.outcome = "done"
  /\ last_call.decision_id = decisions_history[1]
  /\ decisions[decisions_history[1]].status = "approved"
  /\ decisions[decisions_history[2]].status = "pending"

\* C27: after any sequence of update_learning_weights calls, with approved,
\* aborted or another feedback string, the three weights are equal and each
\* has its first value 1.0: the feedback leaves the agent as it was
C27_WeightsStayEqual ==
  /\ learning_weights.medical = learning_weights.evacuation
  /\ learning_weights.evacuation = learning_weights.infrastructure
  /\ learning_weights = InitialWeights

\* an abort and a feedback string the method does not know were fed back
C27_Witness ==
  /\ Len(feedback_log) = 2
  /\ \E i, j \in 1..Len(feedback_log) :
       /\ feedback_log[i].feedback = "aborted"
       /\ feedback_log[j].feedback = "rejected"
  /\ learning_weights.medical = 10000

\* the weights after the first i calls of the log, made one after the other
RECURSIVE SerialWeights(_, _)
SerialWeights(log, i) ==
  IF i = 0 THEN InitialWeights
  ELSE UpdateLearningWeights(SerialWeights(log, i - 1), log[i].feedback)

\* the calls of the log with the given feedback
Fed(log, feedback) ==
  Cardinality({i \in 1..Len(log) : log[i].feedback = feedback})

AssessNext ==
  \/ check_inventory
  \/ determine_risk_level

vars == <<routing_vars, assess_vars, similar_vars, estimate_vars, decision_vars>>

Init == RoutingInit /\ AssessInit /\ SimilarInit /\ EstimateInit /\ DecisionInit

\* the route planner: a_star_route and find_routes_to_zones
Spec == Init /\ [][RoutingNext]_vars

\* the route planner with a loop that keeps running: a call that can make
\* its next pass, or leave the loop on an empty heap, does so
SpecTermination ==
  /\ Init
  /\ [][RoutingNext]_vars
  /\ WF_vars(a_star_iterate)
  /\ WF_vars(a_star_exhausted)

\* the inventory gap analyser and the risk classifier
SpecAssess == Init /\ [][AssessNext]_vars

SpecSimilar == Init /\ [][SimilarNext]_vars

\* the resource estimator and the action recommender
SpecEstimate == Init /\ [][EstimateNext]_vars

\* the request handlers of main.py over the agent's decisions
SpecDecisions == Init /\ [][DecisionNext]_vars

\* the agent's learning weights under feedback calls of any client
SpecWeights == Init /\ [][WeightsNext]_vars
====
